---- MODULE Spec2Model ----
(***************************************************************************)
(* The stochastic finite-difference solver engine of stochlab:             *)
(*   solve_heat               backend/app/solvers/heat_fd.py               *)
(*   solve_wave_equation      backend/app/solvers/wave_fd.py               *)
(*   solve_reaction_diffusion backend/app/solvers/reaction_diffusion.py    *)
(* Each solver call is a state machine: the call (validation and initial   *)
(* condition), one action per loop iteration, and the return.  A session   *)
(* is one call followed, optionally, by one resumed call that is fed the   *)
(* frames of the first response (the resumption protocol).                 *)
(*                                                                         *)
(* A double is a fixed-point number with the IEEE non-finite values; every *)
(* operation rounds.  Transcendental functions (exp, sin) and the seeded   *)
(* generator are stand-ins that keep the shape of the function; random     *)
(* draws are nondeterministic choices.                                     *)
(***************************************************************************)
EXTENDS Integers, Sequences, FiniteSets, TLC

VARIABLES
    solver,      \* what the session runs: "heat", "wave", "rd", "pair", "history"
    pc,          \* "idle", "loop", "done", "failed"
    phase,       \* "first" call of the session or the "resumed" one
    args,        \* the keyword arguments of the call in progress
    heap,        \* buffer id -> array: the caller's lists and the solver's ndarrays
    loc,         \* the solver's local names -> buffer ids
    n,           \* loop index: number of loop iterations completed
    frames,      \* heat: frames; wave: history; rd: history_U
    frames_v,    \* rd: history_V
    energy,      \* heat: energy; wave: energy_history
    t_vals,      \* rd: t_vals
    err,         \* the exception raised by the call, if any
    result,      \* the value returned by the call, if any
    cb_log,      \* progress_callback invocations, in order
    rng,         \* number of values drawn so far from the process-wide generator
    catalogue,   \* the initial-condition branch the call took ("none" if not taken)
    caller0,     \* the caller's arrays as they were when the call was made
    first,       \* the first call of the session, kept for the resumed one
    pair,        \* two solver calls of one process, and the generator they share
    hist         \* the history table and the create_history requests in progress

vars == <<solver, pc, phase, args, heap, loc, n, frames, frames_v, energy,
          t_vals, err, result, cb_log, rng, catalogue, caller0, first, pair, hist>>

----------------------------------------------------------------------------
(* Bounds of the model                                                     *)

\* largest step count (heat t_steps) and horizon (wave, rd: T, with dt = 1)
MaxSteps == 3

\* a double is a fixed-point number: the integer v stands for v / Scale, and
\* every operation rounds to the nearest multiple of 1 / Scale
Scale == 64

\* the largest finite magnitude (in units of 1 / Scale); beyond it: overflow
FMax == 32000

----------------------------------------------------------------------------
(* Arithmetic of doubles, with the IEEE non-finite values                  *)

PosInf == FMax + 1
NegInf == -(FMax + 1)
NaN == FMax + 2

IsNaN(a) == a = NaN
IsFinite(a) == a >= -FMax /\ a <= FMax

Sign(i) == IF i < 0 THEN -1 ELSE IF i > 0 THEN 1 ELSE 0

\* x / d rounded to the nearest integer (d # 0)
RoundDiv(x, d) ==
    IF d > 0 THEN (2 * x + d) \div (2 * d) ELSE (-(2 * x) - d) \div (-(2 * d))

\* overflow to +-inf
Clamp(v) == IF v > FMax THEN PosInf ELSE IF v < -FMax THEN NegInf ELSE v

SignedInf(s) == IF s > 0 THEN PosInf ELSE IF s < 0 THEN NegInf ELSE NaN

\* the double k (an integer) and the double num / den
I(k) == k * Scale
Fx(num, den) == RoundDiv(num * Scale, den)

Zero == I(0)
One == I(1)
Half == Fx(1, 2)

FNeg(a) == IF IsNaN(a) THEN NaN ELSE -a

FAdd(a, b) ==
    IF IsNaN(a) \/ IsNaN(b) THEN NaN
    ELSE IF ~IsFinite(a) /\ ~IsFinite(b) THEN (IF a = b THEN a ELSE NaN)
    ELSE IF ~IsFinite(a) THEN a
    ELSE IF ~IsFinite(b) THEN b
    ELSE Clamp(a + b)

FSub(a, b) == FAdd(a, FNeg(b))

FMul(a, b) ==
    IF IsNaN(a) \/ IsNaN(b) THEN NaN
    ELSE IF ~IsFinite(a) \/ ~IsFinite(b) THEN SignedInf(Sign(a) * Sign(b))
    ELSE Clamp(RoundDiv(a * b, Scale))

\* numpy's division: x/0 is +-inf, 0/0 and inf/inf are NaN
FDiv(a, b) ==
    IF IsNaN(a) \/ IsNaN(b) THEN NaN
    ELSE IF ~IsFinite(b) THEN (IF IsFinite(a) THEN Zero ELSE NaN)
    ELSE IF ~IsFinite(a) THEN SignedInf(Sign(a) * (IF b < 0 THEN -1 ELSE 1))
    ELSE IF b = 0 THEN SignedInf(Sign(a))
    ELSE Clamp(RoundDiv(a * Scale, b))

FSq(a) == FMul(a, a)

\* comparisons: every comparison with NaN is false
FLt(a, b) == ~IsNaN(a) /\ ~IsNaN(b) /\ a < b
FGt(a, b) == FLt(b, a)
FLe(a, b) == ~IsNaN(a) /\ ~IsNaN(b) /\ a <= b

\* np.sqrt of a finite double a >= 0, rounded down to the grid
FSqrt(a) == CHOOSE r \in 0..(a + Scale) : r * r <= a * Scale /\ (r + 1) * (r + 1) > a * Scale

\* np.floor and int() of a finite double
FFloor(a) == a \div Scale
FTrunc(a) == IF a >= 0 THEN a \div Scale ELSE -((-a) \div Scale)

----------------------------------------------------------------------------
(* Arrays: 1-D arrays are sequences of values, 2-D arrays sequences of rows *)

Zeros(k) == [i \in 1..k |-> Zero]

RECURSIVE SumSeq(_)
SumSeq(s) == IF s = <<>> THEN Zero ELSE FAdd(Head(s), SumSeq(Tail(s)))

Last(s) == s[Len(s)]

\* np.linspace(a, b, k): k evenly spaced samples, both end points included
Linspace(a, b, k) ==
    [i \in 1..k |-> IF k = 1 THEN a
                    ELSE FAdd(a, RoundDiv((i - 1) * FSub(b, a), k - 1))]

\* Optional[...] arguments
None == [some |-> FALSE, ref |-> "none"]
Some(id) == [some |-> TRUE, ref |-> id]

NoErr == [type |-> "none", msg |-> "", ratio |-> Zero, threshold |-> Zero]
ValueError(m) == [type |-> "ValueError", msg |-> m, ratio |-> Zero, threshold |-> Zero]

\* stand-in for exp(-z), z >= 0: 1 at 0, positive, decreasing
ExpNeg(z) == FDiv(One, FAdd(One, z))

\* stand-in for sin(2*pi*s), 0 <= s <= 1: zero at 0, 1/2 and 1, positive on
\* the first half turn and negative on the second
SinTurn(s) == FMul(I(10), FMul(FMul(s, FSub(One, s)), FSub(One, FMul(I(2), s))))

----------------------------------------------------------------------------
(* The heap: numpy arrays and Python lists are buffers reached by reference *)

EmptyHeap == [id \in {} |-> <<>>]

\* bind buffer id to the array arr (a new buffer, or a whole-array store)
Alloc(h, id, arr) == (id :> arr) @@ h

\* the caller's arrays are these buffers; everything else belongs to the solver
CallerIds == {"caller_u", "caller_v"}

CallerPart(h) == [id \in (DOMAIN h) \cap CallerIds |-> h[id]]

\* np.array(src): the values land in a fresh buffer, never in src itself
NpArrayAlias(src, fresh) == src
NpArray(src, fresh) == fresh

\* the machine state of one call: what the actions install in the variables
Machine(p, h, l, k, fr, frv, en, tv, e, cb, cat, draws) ==
    [pc |-> p, heap |-> h, loc |-> l, n |-> k, frames |-> fr, frames_v |-> frv,
     energy |-> en, t_vals |-> tv, err |-> e, cb_log |-> cb, catalogue |-> cat,
     rng |-> draws]

NoLoc == [u |-> "none"]

\* the call raised e before its loop: no frame, no energy, nothing returned
Raise(h, l, e, cat, draws) ==
    Machine("failed", h, l, 0, <<>>, <<>>, <<>>, <<>>, e, <<>>, cat, draws)

NoResult == [kind |-> "none"]

----------------------------------------------------------------------------
(* solve_heat                                                              *)

HeatKindsAny == {"pulse", "sin", "random", "bogus"}
HeatKinds == {"pulse", "sin", "random"}

\* stand-in for np.random.default_rng(42).standard_normal: the fixed sequence
\* 0.30, -1.04, 0.75, 0.94, -1.95, -1.30, 0.13, -0.32 rounded to tenths
Seed42Normal(i) ==
    LET tab == <<Fx(3, 10), Fx(-10, 10), Fx(8, 10), Fx(9, 10),
                 Fx(-20, 10), Fx(-13, 10), Fx(1, 10), Fx(-3, 10)>>
    IN  tab[((i - 1) % 8) + 1]

\* _init_condition(x, kind), for kind in HeatKinds
HeatInitCondition(x, kind) ==
    LET x0 == x[1]
        xL == x[Len(x)]
    IN  IF kind = "pulse"
        THEN LET center == FMul(Half, FAdd(x0, xL))
                 w0 == FMul(Fx(5, 100), FSub(xL, x0))
                 width == IF w0 = Zero THEN Fx(5, 100) ELSE w0
             IN  [i \in 1..Len(x) |->
                    ExpNeg(FDiv(FSq(FSub(x[i], center)), FMul(I(2), FSq(width))))]
        ELSE IF kind = "sin"
        THEN [i \in 1..Len(x) |-> SinTurn(FDiv(FSub(x[i], x0), FSub(xL, x0)))]
        ELSE [i \in 1..Len(x) |-> FMul(Fx(1, 10), Seed42Normal(i))]

\* r = alpha * dt / (dx * dx)
HeatRatio(a) == FDiv(FMul(a.alpha, a.dt), FMul(a.dx, a.dx))

\* the stability gate: r > 0.5 is rejected
HeatUnstableLoose(r) == FGt(r, One)
HeatUnstable(r) == FGt(r, Half)

HeatNx(a) == FFloor(FDiv(a.domain, a.dx)) + 1

\* np.sum(u**2) * dx
HeatEnergy(u, dx) == FMul(SumSeq([i \in 1..Len(u) |-> FSq(u[i])]), dx)

\* u[0] = 0.0; u[-1] = 0.0
ZeroEndsKept(u) == u
ZeroEnds(u) == [i \in 1..Len(u) |-> IF i = 1 \/ i = Len(u) THEN Zero ELSE u[i]]

\* np.zeros_like(src): a new buffer, named fresh, not the buffer of src
ZerosLikeAlias(src, fresh) == src
ZerosLike(src, fresh) == fresh

\* lines 113-130: boundary condition, snapshot interval, u_next, initial frame
HeatStart(a, h, l, cat) ==
    IF a.bc # "dirichlet"
    THEN Raise(h, l, ValueError("Only 'dirichlet' bc is supported for now"), cat, 0)
    ELSE LET u == ZeroEnds(h[l.u])
             h1 == Alloc(h, l.u, u)
             id == ZerosLike(l.u, "u_next")
             h2 == Alloc(h1, id, Zeros(Len(u)))
             si == IF a.snapshot_interval <= 0 THEN 1 ELSE a.snapshot_interval
             l2 == [l EXCEPT !.u_next = id, !.snapshot_interval = si]
         IN  Machine("loop", h2, l2, 0, <<u>>, <<>>, <<HeatEnergy(u, a.dx)>>,
                     <<>>, NoErr, <<>>, cat, 0)

\* line 108: u.shape[0] != nx
HeatLengthMismatchNever(k, nx) == FALSE
HeatLengthMismatch(k, nx) == k # nx

\* lines 98-111: the initial field, from init_state or from the catalogue
HeatInitialFieldFresh(a, h, l, nx) ==
    HeatStart(a, Alloc(h, "u", HeatInitCondition(h[l.x], a.init)),
              [l EXCEPT !.u = "u"], a.init)
HeatInitialField(a, h, l, nx) ==
    IF a.init_state.some
    THEN LET id == NpArray(a.init_state.ref, "u")
             h1 == Alloc(h, id, h[a.init_state.ref])
             l1 == [l EXCEPT !.u = id]
         IN  IF HeatLengthMismatch(Len(h1[id]), nx)
             THEN Raise(h1, l1,
                        ValueError("init_state length does not match domain/dx"),
                        "none", 0)
             ELSE HeatStart(a, h1, l1, "none")
    ELSE IF a.init \notin HeatKinds
         THEN Raise(h, l, ValueError("Unknown init kind"), a.init, 0)
         ELSE HeatStart(a, Alloc(h, "u", HeatInitCondition(h[l.x], a.init)),
                        [l EXCEPT !.u = "u"], a.init)

\* lines 89-92: the stability error, whose message carries r and 0.5
HeatStabilityError(r) ==
    [type |-> "ValueError", msg |-> "Unstable parameters: CFL r",
     ratio |-> r, threshold |-> Half]

\* lines 81-130: everything solve_heat does before its loop
HeatEnter(a, h) ==
    LET l0 == [x |-> "none", u |-> "none", u_next |-> "none", snapshot_interval |-> 0]
        r == HeatRatio(a)
    IN  IF FLe(a.dx, Zero) \/ FLe(a.dt, Zero)
        THEN Raise(h, l0, ValueError("dx and dt must be positive"), "none", 0)
        ELSE IF a.t_steps <= 0
        THEN Raise(h, l0, ValueError("t_steps must be positive integer"), "none", 0)
        ELSE IF HeatUnstable(r)
        THEN Raise(h, l0, HeatStabilityError(r), "none", 0)
        ELSE LET nx == HeatNx(a)
                 h1 == Alloc(h, "x", Linspace(Zero, a.domain, nx))
             IN  HeatInitialField(a, h1, [l0 EXCEPT !.x = "x"], nx)

\* if sigma > 0.0: whether a step draws from the process-wide generator
\* (heat_fd.py line 140, wave_fd.py line 112)
DrawsNoiseAlways(sigma) == TRUE
DrawsNoise(sigma) == FGt(sigma, Zero)

\* lines 135-148: the new time level from u; z holds the standard-normal
\* draws of the step, one per interior point
HeatNextLevel(a, u, z) ==
    [i \in 1..Len(u) |->
        IF i = 1 \/ i = Len(u) THEN Zero
        ELSE LET lap == FAdd(FSub(u[i + 1], FMul(I(2), u[i])), u[i - 1])
                 det == FAdd(u[i], FDiv(FMul(FMul(a.alpha, a.dt), lap),
                                        FMul(a.dx, a.dx)))
             IN  IF DrawsNoise(a.sigma)
                 THEN FAdd(det, FMul(FMul(a.sigma, FSqrt(a.dt)), z[i - 1]))
                 ELSE det]

\* (n % snapshot_interval) == 0
HeatSnapshotDueAlways(k, si) == TRUE
HeatSnapshotDue(k, si) == k % si = 0

\* lines 159-160: the state of the call that is in place when the callback
\* of an iteration is invoked, given the states before and after the update
\* and the recording of that iteration
HeatCallbackSeesBefore(before, after) == before
HeatCallbackSees(before, after) == after

\* progress_callback(n, t_steps): its arguments, and what the call had
\* recorded and which field it held at that moment
HeatCallback(k, total, seen) ==
    [n |-> k, total |-> total, frames |-> Len(seen.frames),
     energy |-> Len(seen.energy), u |-> seen.heap[seen.loc.u]]

\* lines 132-160: one iteration of the loop, n = m.n + 1
HeatIter(a, m, z) ==
    LET k == m.n + 1
        un == HeatNextLevel(a, m.heap[m.loc.u], z)
        h1 == Alloc(m.heap, m.loc.u_next, un)
        l1 == [m.loc EXCEPT !.u = m.loc.u_next, !.u_next = m.loc.u]
        u == h1[l1.u]
        due == HeatSnapshotDue(k, m.loc.snapshot_interval)
        m1 == [m EXCEPT !.heap = h1, !.loc = l1, !.n = k,
                        !.frames = IF due THEN Append(@, u) ELSE @,
                        !.energy = IF due THEN Append(@, HeatEnergy(u, a.dx)) ELSE @]
    IN  [m1 EXCEPT !.cb_log = IF a.progress_callback
                              THEN Append(@, HeatCallback(k, a.t_steps,
                                                          HeatCallbackSees(m, m1)))
                              ELSE @,
                   !.rng = IF DrawsNoise(a.sigma) THEN @ + Len(z) ELSE @]

\* lines 132-160: the loop from machine state m to its end, without noise
RECURSIVE HeatLoop(_, _)
HeatLoop(a, m) ==
    IF m.pc = "loop" /\ m.n < a.t_steps
    THEN HeatLoop(a, HeatIter(a, m, Zeros(Len(m.heap[m.loc.u]) - 2)))
    ELSE m

\* solve_heat(**a) as a function of its arguments and the caller's arrays
\* (sigma = 0): the machine state when the loop is over
HeatRun(a, h) == HeatLoop(a, HeatEnter(a, h))

\* lines 162-169
HeatResult(a, m) ==
    IF a.return_as_list
    THEN [kind |-> "dict", frames |-> m.frames, energy |-> m.energy]
    ELSE [kind |-> "ndarray", frames |-> m.frames, energy |-> <<>>]

\* the inputs a caller may pass to solve_heat: every option without noise,
\* and fewer options with noise, whose runs branch at every step
HeatInputs ==
    [alpha : {One}, dt : {I(-1), Zero, I(1), I(2), I(3)}, dx : {I(-2), Zero, I(2)},
     t_steps : 0..MaxSteps, domain : {I(8)},
     init : {"pulse", "sin", "random", "bogus"}, init_state : {None, Some("caller_u")},
     bc : {"dirichlet", "neumann"}, sigma : {Zero},
     snapshot_interval : {0, 1, 2}, return_as_list : {TRUE},
     progress_callback : BOOLEAN]
    \cup
    [alpha : {One}, dt : {I(1), I(3)}, dx : {I(2)},
     t_steps : 0..MaxSteps, domain : {I(8)},
     init : {"pulse"}, init_state : {None, Some("caller_u")},
     bc : {"dirichlet"}, sigma : {One},
     snapshot_interval : {1, 2}, return_as_list : {TRUE},
     progress_callback : {TRUE}]

\* the init_state lists a caller may pass: the grid's length with non-zero
\* end values, and a shorter one
HeatCallerArrays(a) ==
    IF a.init_state.some
    THEN {<<I(1), I(2), I(4), I(2), I(3)>>, <<I(1), I(2), I(1)>>}
    ELSE {<<>>}

\* the standard-normal draws of one step: k values from the generator
NormalDraws(k) ==
    {[i \in 1..k |-> IF i % 2 = 1 THEN w ELSE FNeg(w)] : w \in {Fx(1, 2), Fx(-1, 2)}}

----------------------------------------------------------------------------
(* solve_wave_equation                                                     *)

ZeroDivisionError == [type |-> "ZeroDivisionError", msg |-> "float division by zero",
                      ratio |-> Zero, threshold |-> Zero]

\* cfl = c * dt / dx
WaveCfl(a) == FDiv(FMul(a.c, a.dt), a.dx)

\* the CFL gate: cfl > 1.0 is rejected
WaveUnstableNever(cfl) == FALSE
WaveUnstable(cfl) == FGt(cfl, One)

\* u_curr[:n_copy] = current_u[:n_copy], n_copy = min(nx, len(current_u))
CopyPrefix(dst, src) ==
    [i \in 1..Len(dst) |-> IF i <= Len(src) THEN src[i] ELSE dst[i]]

\* np.exp(-((x - domain_len/2)**2) / 0.5)
WavePulse(x, domain_len) ==
    [i \in 1..Len(x) |->
        ExpNeg(FDiv(FSq(FSub(x[i], FDiv(domain_len, I(2)))), Half))]

\* the plucked string: linspace(0, 1, center) then linspace(1, 0, nx - center)
WaveString(nx) ==
    LET center == nx \div 2
        up == Linspace(Zero, One, center)
        down == Linspace(One, Zero, nx - center)
    IN  [i \in 1..nx |-> IF i <= center THEN up[i] ELSE down[i - center]]

\* lines 38-69: u_curr and u_prev as the initial-condition branches leave them
WaveInitialConditionFresh(a, h, l) == Alloc(h, "u_curr", WavePulse(h["x"], a.domain_len))
WaveInitialCondition(a, h, l) ==
    IF a.current_u.some /\ a.current_u_prev.some
    THEN LET h1 == Alloc(h, "u_curr", CopyPrefix(h["u_curr"], h[a.current_u.ref]))
         IN  Alloc(h1, "u_prev", CopyPrefix(h1["u_prev"], h1[a.current_u_prev.ref]))
    ELSE IF a.init_type = "pulse"
    THEN Alloc(h, "u_curr", WavePulse(h["x"], a.domain_len))
    ELSE IF a.init_type = "string"
    THEN Alloc(h, "u_curr", WaveString(l.nx))
    ELSE h

WaveBranch(a) ==
    IF a.current_u.some /\ a.current_u_prev.some THEN "resume"
    ELSE IF a.init_type \in {"pulse", "string"} THEN a.init_type
    ELSE "none"

\* lines 23-76: everything solve_wave_equation does before its loop
WaveEnter(a, h) ==
    LET l0 == [x |-> "none", u_curr |-> "none", u_prev |-> "none",
               u_next |-> "none", nx |-> 0, nt |-> 0]
    IN  IF a.dx = Zero \/ a.dt = Zero
        THEN Raise(h, l0, ZeroDivisionError, "none", 0)
        ELSE LET nx == FTrunc(FDiv(a.domain_len, a.dx)) + 1
                 nt == FTrunc(FDiv(a.T, a.dt))
                 cfl == WaveCfl(a)
             IN  IF nx < 0
                 THEN Raise(h, l0, ValueError("Number of samples must be non-negative"),
                            "none", 0)
                 ELSE LET hx == Alloc(h, "x", Linspace(Zero, a.domain_len, nx))
                          lx == [l0 EXCEPT !.x = "x", !.nx = nx, !.nt = nt]
                      IN  IF WaveUnstable(cfl)
                          THEN Raise(hx, lx,
                                     [type |-> "ValueError",
                                      msg |-> "Unstable: CFL condition violated",
                                      ratio |-> cfl, threshold |-> One], "none", 0)
                          ELSE LET h3 == Alloc(Alloc(Alloc(hx, "u_curr", Zeros(nx)),
                                                     "u_prev", Zeros(nx)),
                                               "u_next", Zeros(nx))
                                   l3 == [lx EXCEPT !.u_curr = "u_curr",
                                                    !.u_prev = "u_prev",
                                                    !.u_next = "u_next"]
                                   h4 == WaveInitialCondition(a, h3, l3)
                                   h5 == IF ~a.current_u.some
                                         THEN Alloc(h4, "u_prev", h4["u_curr"])
                                         ELSE h4
                               IN  Machine("loop", h5, l3, 0, <<h5["u_curr"]>>, <<>>,
                                           <<>>, <<>>, NoErr, <<>>, WaveBranch(a), 0)

\* lines 107-123: u_next from u_curr and u_prev; z holds the standard-normal
\* draws of the step, one per grid point
WaveNextLevel(a, uc, up, z) ==
    LET r2 == FSq(FDiv(FMul(a.c, a.dt), a.dx))
        k == FMul(a.damping, a.dt)
        dt2 == FSq(a.dt)
    IN  [i \in 1..Len(uc) |->
            IF i = 1 \/ i = Len(uc) THEN Zero
            ELSE LET d2u == FAdd(FSub(uc[i + 1], FMul(I(2), uc[i])), uc[i - 1])
                     noise == IF DrawsNoise(a.sigma) THEN z[i] ELSE Zero
                     forcing == FMul(FMul(a.sigma, noise), dt2)
                     numerator ==
                         FAdd(FAdd(FSub(FMul(I(2), uc[i]),
                                        FMul(up[i], FSub(One, FDiv(k, I(2))))),
                                   FMul(r2, d2u)),
                              forcing)
                 IN  FDiv(numerator, FAdd(One, FDiv(k, I(2))))]

\* lines 129-134: the energy of the step
WaveEnergy(a, un, uc, up) ==
    LET nx == Len(uc)
        vel == [i \in 1..nx |-> FDiv(FSub(un[i], up[i]), FMul(I(2), a.dt))]
        strain == [i \in 1..(nx - 1) |-> FDiv(FSub(uc[i + 1], uc[i]), a.dx)]
        kin_en == FMul(FMul(Half, SumSeq([i \in 1..(nx - 2) |-> FSq(vel[i + 1])])), a.dx)
        pot_en == FMul(FMul(FMul(Half, FSq(a.c)),
                            SumSeq([i \in 1..(nx - 1) |-> FSq(strain[i])])), a.dx)
    IN  FAdd(kin_en, pot_en)

\* lines 106-142: one iteration of the loop
WaveIter(a, m, z) ==
    LET uc == m.heap[m.loc.u_curr]
        up == m.heap[m.loc.u_prev]
        un == WaveNextLevel(a, uc, up, z)
        h1 == Alloc(m.heap, "u_next", un)
        h2 == Alloc(h1, m.loc.u_prev, uc)
        h3 == Alloc(h2, m.loc.u_curr, un)
    IN  [m EXCEPT !.heap = h3, !.n = m.n + 1,
                  !.energy = Append(@, WaveEnergy(a, un, uc, up)),
                  !.frames = Append(@, h3[m.loc.u_curr]),
                  !.rng = IF DrawsNoise(a.sigma) THEN @ + Len(uc) ELSE @]

\* lines 106-142: the loop from machine state m to its end, without noise
RECURSIVE WaveLoop(_, _)
WaveLoop(a, m) ==
    IF m.pc = "loop" /\ m.n < m.loc.nt
    THEN WaveLoop(a, WaveIter(a, m, Zeros(m.loc.nx)))
    ELSE m

\* solve_wave_equation(**a) as a function of its arguments and the caller's
\* arrays (sigma = 0): the machine state when the loop is over
WaveRun(a, h) == WaveLoop(a, WaveEnter(a, h))

\* lines 144-149
WaveResultShortT(a, m) ==
    [kind |-> "dict", x |-> m.heap[m.loc.x],
     t |-> Linspace(Zero, a.T, Len(m.energy)),
     frames |-> m.frames, energy |-> m.energy]
WaveResult(a, m) ==
    [kind |-> "dict", x |-> m.heap[m.loc.x],
     t |-> Linspace(Zero, a.T, Len(m.frames)),
     frames |-> m.frames, energy |-> m.energy]

\* the inputs a caller may pass to solve_wave_equation: every option
\* without noise, and fewer options with noise, whose runs branch at every
\* step
WaveInputs ==
    [c : {One}, damping : {Zero, I(2)}, sigma : {Zero},
     T : {I(k) : k \in 0..MaxSteps}, dt : {I(-1), Zero, I(1), I(2)},
     dx : {I(-1), Zero, I(1)}, domain_len : {I(4)},
     init_type : {"pulse", "string", "bogus"},
     current_u : {None, Some("caller_u")},
     current_u_prev : {None, Some("caller_v")}]
    \cup
    [c : {One}, damping : {I(2)}, sigma : {One},
     T : {I(k) : k \in 0..MaxSteps}, dt : {I(1), I(2)},
     dx : {I(1)}, domain_len : {I(4)},
     init_type : {"pulse"},
     current_u : {None, Some("caller_u")},
     current_u_prev : {None, Some("caller_v")}]

\* the resume lists a caller may pass: the grid's length, shorter, longer
WaveCallerU(a) ==
    IF a.current_u.some
    THEN {<<I(1), I(2), I(4), I(2), I(3)>>, <<I(1), I(2), I(1)>>,
          <<I(1), I(2), I(3), I(2), I(1), I(5)>>}
    ELSE {<<>>}

WaveCallerPrev(a) ==
    IF a.current_u_prev.some
    THEN {<<I(2), I(1), I(3), I(1), I(2)>>, <<I(2), I(1), I(2)>>}
    ELSE {<<>>}

----------------------------------------------------------------------------
(* solve_reaction_diffusion                                                *)

\* the target number of frames of the decimation (line 99)
TargetFrames == 50

Max(i, j) == IF i > j THEN i ELSE j
Min(i, j) == IF i < j THEN i ELSE j

Full(nx, ny, v) == [i \in 1..nx |-> [j \in 1..ny |-> v]]

\* ndarray.shape of a 2-D array
Shape(A) == <<Len(A), IF Len(A) = 0 THEN 0 ELSE Len(A[1])>>

\* np.roll makes the neighbours periodic
Wrap(i, k) == ((i - 1) % k) + 1

\* laplacian(Z), lines 85-90
Laplacian(Z, dx) ==
    LET nx == Len(Z)
        ny == Len(Z[1])
    IN  [i \in 1..nx |-> [j \in 1..ny |->
            FDiv(FSub(FAdd(FAdd(FAdd(Z[Wrap(i - 1, nx)][j], Z[Wrap(i + 1, nx)][j]),
                                Z[i][Wrap(j - 1, ny)]),
                           Z[i][Wrap(j + 1, ny)]),
                      FMul(I(4), Z[i][j])),
                 FSq(dx))]]

\* the 0-based index range lo:hi of a Python slice over k elements
SliceStart(lo, k) == IF lo < 0 THEN Max(lo + k, 0) ELSE Min(lo, k)

InSlice(i, lo, hi, k) == SliceStart(lo, k) <= i - 1 /\ i - 1 < SliceStart(hi, k)

\* lines 52-67: the central patch of random_center, perturbed by zu and zv
RDRandomCenter(nx, ny, zu, zv) ==
    LET cx == nx \div 2
        cy == ny \div 2
        r == Max(1, Min(10, Min(nx \div 4, ny \div 4)))
        in(i, j) == /\ Max(0, cx - r) <= i - 1 /\ i - 1 < Min(nx, cx + r)
                    /\ Max(0, cy - r) <= j - 1 /\ j - 1 < Min(ny, cy + r)
    IN  [U |-> [i \in 1..nx |-> [j \in 1..ny |->
                  IF in(i, j) THEN FAdd(Half, FMul(Fx(5, 100), zu[i][j])) ELSE One]],
         V |-> [i \in 1..nx |-> [j \in 1..ny |->
                  IF in(i, j) THEN FAdd(Fx(1, 4), FMul(Fx(5, 100), zv[i][j])) ELSE Zero]],
         draws |-> 2 * (Min(nx, cx + r) - Max(0, cx - r)) * (Min(ny, cy + r) - Max(0, cy - r))]

\* lines 68-70
RDRandomEverywhere(nx, ny, zu, zv) ==
    [U |-> [i \in 1..nx |-> [j \in 1..ny |-> FAdd(One, FMul(Fx(5, 100), zu[i][j]))]],
     V |-> [i \in 1..nx |-> [j \in 1..ny |-> FAdd(Zero, FMul(Fx(5, 100), zv[i][j]))]],
     draws |-> 2 * nx * ny]

\* the cells U[rx-2:rx+2, ry-2:ry+2] of one spot, rx and ry 0-based
SpotCells(nx, ny, rx, ry) ==
    {<<i, j>> \in (1..nx) \X (1..ny) :
        InSlice(i, rx - 2, rx + 2, nx) /\ InSlice(j, ry - 2, ry + 2, ny)}

\* the cell sets that ten spots at random centres can cover
SpotCovers(nx, ny) ==
    {UNION {SpotCells(nx, ny, c[1], c[2]) : c \in S} :
        S \in {S0 \in SUBSET ((0..(nx - 1)) \X (0..(ny - 1))) :
                  S0 # {} /\ Cardinality(S0) <= 10}}

\* lines 71-76
RDSpots(nx, ny, cells) ==
    [U |-> [i \in 1..nx |-> [j \in 1..ny |-> IF <<i, j>> \in cells THEN Half ELSE One]],
     V |-> [i \in 1..nx |-> [j \in 1..ny |-> IF <<i, j>> \in cells THEN Fx(1, 4) ELSE Zero]],
     draws |-> 20]

RDKinds == {"random_center", "random_everywhere", "spots"}

\* lines 51-76: the catalogue; d is the outcome of the random draws
RDCatalogue(a, d) ==
    IF a.init_type = "random_center" THEN RDRandomCenter(a.width, a.height, d.zu, d.zv)
    ELSE IF a.init_type = "random_everywhere"
    THEN RDRandomEverywhere(a.width, a.height, d.zu, d.zv)
    ELSE IF a.init_type = "spots" THEN RDSpots(a.width, a.height, d.cells)
    ELSE [U |-> Full(a.width, a.height, One), V |-> Full(a.width, a.height, Zero),
          draws |-> 0]

\* line 42: both resume arrays have the shape of the grid
RDAdoptsNever(a, su, sv) == FALSE
RDAdopts(a, su, sv) == su = <<a.width, a.height>> /\ sv = <<a.width, a.height>>

\* steps_per_frame = max(1, int(nt / 50))
StepsPerFrame(nt) == Max(1, nt \div TargetFrames)

\* lines 28-107: everything solve_reaction_diffusion does before its loop
RDEnter(a, h, d) ==
    LET nx == a.width
        ny == a.height
        l0 == [U |-> "U", V |-> "V", accumulated_U |-> "none",
               accumulated_V |-> "none", nt |-> 0, steps_per_frame |-> 0]
        h0 == Alloc(Alloc(h, "U", Full(nx, ny, One)), "V", Full(nx, ny, Zero))
        resume == a.current_u.some /\ a.current_v.some
        ru == NpArray(a.current_u.ref, "resume_u")
        rv == NpArray(a.current_v.ref, "resume_v")
        hr == Alloc(Alloc(h0, ru, h0[a.current_u.ref]), rv, h0[a.current_v.ref])
        fits == RDAdopts(a, Shape(hr[ru]), Shape(hr[rv]))
        ic == RDCatalogue(a, d)
        h1 == IF resume THEN hr
              ELSE Alloc(Alloc(h0, "U", ic.U), "V", ic.V)
        l1 == IF resume /\ fits THEN [l0 EXCEPT !.U = ru, !.V = rv] ELSE l0
        cat == IF resume THEN (IF fits THEN "resume" ELSE "none")
               ELSE IF a.init_type \in RDKinds THEN a.init_type ELSE "none"
        draws == IF resume THEN 0 ELSE ic.draws
    IN  IF a.dt = Zero
        THEN Raise(h1, l1, ZeroDivisionError, cat, draws)
        ELSE LET nt == FTrunc(FDiv(a.T, a.dt))
                 h2 == Alloc(Alloc(h1, "accumulated_U", h1[l1.U]),
                             "accumulated_V", h1[l1.V])
                 l2 == [l1 EXCEPT !.accumulated_U = "accumulated_U",
                                  !.accumulated_V = "accumulated_V",
                                  !.nt = nt, !.steps_per_frame = StepsPerFrame(nt)]
             IN  Machine("loop", h2, l2, 0, <<>>, <<>>, <<>>, <<>>, NoErr, <<>>,
                         cat, draws)

\* lines 110-130: one forward-Euler step of the Gray-Scott system; zu and zv
\* hold the standard-normal draws of the step
GrayScottStepSequential(a, U, V, zu, zv) ==
    LET Lu == Laplacian(U, a.dx)
        Lv == Laplacian(V, a.dx)
        amp == IF FGt(a.sigma, Zero) THEN FMul(a.sigma, FSqrt(a.dt)) ELSE Zero
        uv2(i, j) == FMul(U[i][j], FSq(V[i][j]))
        noise_u(i, j) == IF FGt(a.sigma, Zero) THEN FMul(zu[i][j], amp) ELSE Zero
        noise_v(i, j) == IF FGt(a.sigma, Zero) THEN FMul(zv[i][j], amp) ELSE Zero
        du(i, j) == FAdd(FAdd(FSub(FMul(a.Du, Lu[i][j]), uv2(i, j)),
                              FMul(a.F, FSub(One, U[i][j]))),
                         noise_u(i, j))
        dv(i, j) == FAdd(FSub(FAdd(FMul(a.Dv, Lv[i][j]), uv2(i, j)),
                              FMul(FAdd(a.F, a.k), V[i][j])),
                         noise_v(i, j))
        Un == [i \in 1..Len(U) |-> [j \in 1..Len(U[1]) |->
                  FAdd(U[i][j], FMul(du(i, j), a.dt))]]
        dv2(i, j) == FAdd(FSub(FAdd(FMul(a.Dv, Lv[i][j]), FMul(Un[i][j], FSq(V[i][j]))),
                               FMul(FAdd(a.F, a.k), V[i][j])),
                          noise_v(i, j))
    IN  [U |-> Un,
         V |-> [i \in 1..Len(V) |-> [j \in 1..Len(V[1]) |->
                  FAdd(V[i][j], FMul(dv2(i, j), a.dt))]]]
GrayScottStep(a, U, V, zu, zv) ==
    LET Lu == Laplacian(U, a.dx)
        Lv == Laplacian(V, a.dx)
        amp == IF FGt(a.sigma, Zero) THEN FMul(a.sigma, FSqrt(a.dt)) ELSE Zero
        uv2(i, j) == FMul(U[i][j], FSq(V[i][j]))
        noise_u(i, j) == IF FGt(a.sigma, Zero) THEN FMul(zu[i][j], amp) ELSE Zero
        noise_v(i, j) == IF FGt(a.sigma, Zero) THEN FMul(zv[i][j], amp) ELSE Zero
        du(i, j) == FAdd(FAdd(FSub(FMul(a.Du, Lu[i][j]), uv2(i, j)),
                              FMul(a.F, FSub(One, U[i][j]))),
                         noise_u(i, j))
        dv(i, j) == FAdd(FSub(FAdd(FMul(a.Dv, Lv[i][j]), uv2(i, j)),
                              FMul(FAdd(a.F, a.k), V[i][j])),
                         noise_v(i, j))
    IN  [U |-> [i \in 1..Len(U) |-> [j \in 1..Len(U[1]) |->
                  FAdd(U[i][j], FMul(du(i, j), a.dt))]],
         V |-> [i \in 1..Len(V) |-> [j \in 1..Len(V[1]) |->
                  FAdd(V[i][j], FMul(dv(i, j), a.dt))]]]

\* np.any(np.isnan(Z))
AnyNaN(Z) == \E i \in 1..Len(Z) : \E j \in 1..Len(Z[i]) : IsNaN(Z[i][j])

\* i % steps_per_frame == 0
RDFrameDueLate(i, spf) == (i + 1) % spf = 0
RDFrameDue(i, spf) == i % spf = 0

\* lines 109-143: one iteration of the loop, i = m.n
RDIter(a, m, zu, zv) ==
    LET i == m.n
        s == GrayScottStep(a, m.heap[m.loc.accumulated_U],
                           m.heap[m.loc.accumulated_V], zu, zv)
        h1 == Alloc(Alloc(m.heap, m.loc.accumulated_U, s.U), m.loc.accumulated_V, s.V)
        draws == IF FGt(a.sigma, Zero) THEN 2 * a.width * a.height ELSE 0
        due == RDFrameDue(i, m.loc.steps_per_frame)
    IN  IF AnyNaN(s.U)
        THEN [m EXCEPT !.pc = "failed", !.heap = h1, !.n = i + 1,
                       !.err = ValueError("Simulation unstable (NaN values detected)"),
                       !.rng = @ + draws]
        ELSE [m EXCEPT !.heap = h1, !.n = i + 1,
                       !.frames = IF due THEN Append(@, s.U) ELSE @,
                       !.frames_v = IF due THEN Append(@, s.V) ELSE @,
                       !.t_vals = IF due THEN Append(@, FMul(I(i), a.dt)) ELSE @,
                       !.rng = @ + draws]

\* lines 145-150
RDResult(a, m) ==
    [kind |-> "dict", t |-> m.t_vals, U |-> m.frames, V |-> m.frames_v,
     parameters |-> [Du |-> a.Du, Dv |-> a.Dv, F |-> a.F, k |-> a.k]]

\* the horizons around the first stride of 2: nt = 2 * 50 - 1, whose stride
\* is still 1, nt = 2 * 50 and one more
LongSteps == {2 * TargetFrames - 1, 2 * TargetFrames, 2 * TargetFrames + 1}

\* the inputs a caller may pass to solve_reaction_diffusion: short horizons
\* with every option without noise, fewer options with noise, whose runs
\* branch at every step, and the long noiseless horizons, which resume from a
\* state on which the kinetics oscillate (F * dt = 2, uniform U, V = 0)
RDInputs ==
    [Du : {Fx(1, 8)}, Dv : {Fx(1, 16)}, F : {Fx(1, 16)}, k : {Fx(1, 16)},
     sigma : {Zero}, T : {I(k) : k \in 0..MaxSteps}, dt : {I(-1), Zero, One},
     dx : {Zero, One}, init_type : RDKinds \cup {"bogus"},
     width : {2, 3}, height : {2},
     current_u : {None, Some("caller_u")}, current_v : {None, Some("caller_v")}]
    \cup
    [Du : {Fx(1, 8)}, Dv : {Fx(1, 16)}, F : {Fx(1, 16)}, k : {Fx(1, 16)},
     sigma : {One}, T : {I(k) : k \in 0..MaxSteps}, dt : {One},
     dx : {One}, init_type : {"random_center"},
     width : {2, 3}, height : {2},
     current_u : {None, Some("caller_u")}, current_v : {None, Some("caller_v")}]
    \cup
    [Du : {Fx(1, 8)}, Dv : {Fx(1, 16)}, F : {Half}, k : {Fx(1, 16)},
     sigma : {Zero}, T : {I(4 * k) : k \in LongSteps}, dt : {I(4)},
     dx : {One}, init_type : {"random_center"},
     width : {2}, height : {2},
     current_u : {Some("caller_u")}, current_v : {Some("caller_v")}]

\* the resume states a caller may pass
RDCallerU(a) ==
    IF ~a.current_u.some THEN {<<>>}
    ELSE IF a.dt = I(4) THEN {Full(2, 2, I(3))}
    ELSE {<<<<I(1), Half>>, <<Half, I(1)>>>>}

RDCallerV(a) ==
    IF ~a.current_v.some THEN {<<>>}
    ELSE IF a.dt = I(4) THEN {Full(2, 2, Zero)}
    ELSE {<<<<Zero, Half>>, <<Half, Zero>>>>,
          <<<<Zero, Half>>, <<Half, Zero>>, <<Zero, Zero>>>>}

\* the standard-normal draws of one 2-D field pair (zu, zv)
NormalFields(nx, ny) ==
    {[zu |-> [i \in 1..nx |-> [j \in 1..ny |->
                IF (i + j) % 2 = 0 THEN w ELSE FNeg(w)]],
      zv |-> [i \in 1..nx |-> [j \in 1..ny |->
                IF (i + j) % 2 = 0 THEN FNeg(w) ELSE w]]] : w \in {Fx(1, 2), Fx(-1, 2)}}

\* the outcomes of the random draws of the catalogue branch of a
RDInitDraws(a) ==
    IF a.current_u.some /\ a.current_v.some THEN {[zu |-> <<>>, zv |-> <<>>, cells |-> {}]}
    ELSE IF a.init_type \in {"random_center", "random_everywhere"}
    THEN {[zu |-> f.zu, zv |-> f.zv, cells |-> {}] : f \in NormalFields(a.width, a.height)}
    ELSE IF a.init_type = "spots"
    THEN {[zu |-> <<>>, zv |-> <<>>, cells |-> c] : c \in SpotCovers(a.width, a.height)}
    ELSE {[zu |-> <<>>, zv |-> <<>>, cells |-> {}]}

----------------------------------------------------------------------------
(* The session                                                             *)

NoArgs == [solver |-> "none"]
NoFirst == [args |-> NoArgs, caller |-> EmptyHeap]

Current ==
    Machine(pc, heap, loc, n, frames, frames_v, energy, t_vals, err, cb_log,
            catalogue, rng)

Install(m) ==
    /\ pc' = m.pc
    /\ heap' = m.heap
    /\ loc' = m.loc
    /\ n' = m.n
    /\ frames' = m.frames
    /\ frames_v' = m.frames_v
    /\ energy' = m.energy
    /\ t_vals' = m.t_vals
    /\ err' = m.err
    /\ cb_log' = m.cb_log
    /\ catalogue' = m.catalogue

\* a call starts with nothing but the caller's arrays on the heap; the
\* generator is the process's and keeps its count
Enter(m, a, h0) ==
    /\ Install(m)
    /\ rng' = rng + m.rng
    /\ args' = a
    /\ caller0' = CallerPart(h0)
    /\ result' = NoResult

\* no pair of calls, no history request
NoPair == [call |-> <<>>, gen |-> 0]
NoHist == [rows |-> {}, req |-> <<>>, clock |-> 0]

\* no call has been made in the session
Idle ==
    /\ pc = "idle"
    /\ phase = "first"
    /\ args = NoArgs
    /\ heap = EmptyHeap
    /\ loc = NoLoc
    /\ n = 0
    /\ frames = <<>>
    /\ frames_v = <<>>
    /\ energy = <<>>
    /\ t_vals = <<>>
    /\ err = NoErr
    /\ result = NoResult
    /\ cb_log = <<>>
    /\ rng = 0
    /\ catalogue = "none"
    /\ caller0 = EmptyHeap
    /\ first = NoFirst

Init ==
    /\ solver \in {"heat", "wave", "rd"}
    /\ Idle
    /\ pair = NoPair
    /\ hist = NoHist

\* solve_heat(**a) is called; cu is the caller's init_state list, if any
HeatCall ==
    /\ solver = "heat"
    /\ pc = "idle"
    /\ \E a \in HeatInputs : \E cu \in HeatCallerArrays(a) :
          LET h0 == IF a.init_state.some THEN Alloc(EmptyHeap, "caller_u", cu)
                    ELSE EmptyHeap
          IN  \E m \in {HeatEnter(a, h0)} : Enter(m, a, h0)
    /\ UNCHANGED <<solver, phase, first>>
    /\ UNCHANGED <<pair, hist>>

\* for n in range(1, t_steps + 1): the loop is over after k iterations
HeatLoopOverEarly(k, t_steps) == k >= 1
HeatLoopOver(k, t_steps) == k >= t_steps

\* one iteration of the loop of solve_heat
HeatStep ==
    /\ solver = "heat"
    /\ pc = "loop"
    /\ ~HeatLoopOver(n, args.t_steps)
    /\ \E z \in NormalDraws(Len(heap[loc.u]) - 2) :
          \E m \in {HeatIter(args, Current, z)} : Install(m) /\ rng' = m.rng
    /\ UNCHANGED <<solver, phase, args, result, caller0, first>>
    /\ UNCHANGED <<pair, hist>>

\* the loop of solve_heat is over: the result is built and returned
HeatReturn ==
    /\ solver = "heat"
    /\ pc = "loop"
    /\ HeatLoopOver(n, args.t_steps)
    /\ pc' = "done"
    /\ result' = HeatResult(args, Current)
    /\ UNCHANGED <<solver, phase, args, heap, loc, n, frames, frames_v, energy,
                   t_vals, err, cb_log, rng, catalogue, caller0, first>>
    /\ UNCHANGED <<pair, hist>>

\* the resumption protocol: the caller takes the last frame of the response
\* and calls again with it as init_state, the other parameters unchanged
\* but for the step count
HeatResume ==
    /\ solver = "heat"
    /\ pc = "done"
    /\ phase = "first"
    /\ \E steps \in 0..MaxSteps :
          LET a == [args EXCEPT !.t_steps = steps, !.init_state = Some("caller_u")]
              h0 == Alloc(EmptyHeap, "caller_u", Last(result.frames))
          IN  \E m \in {HeatEnter(a, h0)} : Enter(m, a, h0)
    /\ phase' = "resumed"
    /\ first' = [args |-> args, caller |-> caller0]
    /\ UNCHANGED solver
    /\ UNCHANGED <<pair, hist>>

HeatNext ==
    \/ HeatCall
    \/ HeatStep
    \/ HeatReturn
    \/ HeatResume

InitHeat == Init /\ solver = "heat"

SpecHeat == InitHeat /\ [][HeatNext]_vars

\* the heap at the start of a wave call
WaveCallerHeap(a, cu, cp) ==
    LET h1 == IF a.current_u.some THEN Alloc(EmptyHeap, "caller_u", cu) ELSE EmptyHeap
    IN  IF a.current_u_prev.some THEN Alloc(h1, "caller_v", cp) ELSE h1

\* solve_wave_equation(**a) is called
WaveCall ==
    /\ solver = "wave"
    /\ pc = "idle"
    /\ \E a \in WaveInputs : \E cu \in WaveCallerU(a) : \E cp \in WaveCallerPrev(a) :
          LET h0 == WaveCallerHeap(a, cu, cp)
          IN  \E m \in {WaveEnter(a, h0)} : Enter(m, a, h0)
    /\ UNCHANGED <<solver, phase, first>>
    /\ UNCHANGED <<pair, hist>>

\* one iteration of the loop of solve_wave_equation
WaveStep ==
    /\ solver = "wave"
    /\ pc = "loop"
    /\ n < loc.nt
    /\ \E z \in NormalDraws(loc.nx) :
          \E m \in {WaveIter(args, Current, z)} : Install(m) /\ rng' = m.rng
    /\ UNCHANGED <<solver, phase, args, result, caller0, first>>
    /\ UNCHANGED <<pair, hist>>

\* the loop is over: the result is built and returned
WaveReturn ==
    /\ solver = "wave"
    /\ pc = "loop"
    /\ n >= loc.nt
    /\ pc' = "done"
    /\ result' = WaveResult(args, Current)
    /\ UNCHANGED <<solver, phase, args, heap, loc, n, frames, frames_v, energy,
                   t_vals, err, cb_log, rng, catalogue, caller0, first>>
    /\ UNCHANGED <<pair, hist>>

\* the resumption protocol: current_u is the last frame of the response and
\* current_u_prev the one before it, the other parameters unchanged but for
\* the horizon
WaveResume ==
    /\ solver = "wave"
    /\ pc = "done"
    /\ phase = "first"
    /\ Len(result.frames) >= 2
    /\ \E T \in {I(k) : k \in 0..MaxSteps} :
          LET a == [args EXCEPT !.T = T, !.current_u = Some("caller_u"),
                                !.current_u_prev = Some("caller_v")]
              h0 == WaveCallerHeap(a, result.frames[Len(result.frames)],
                                   result.frames[Len(result.frames) - 1])
          IN  \E m \in {WaveEnter(a, h0)} : Enter(m, a, h0)
    /\ phase' = "resumed"
    /\ first' = [args |-> args, caller |-> caller0]
    /\ UNCHANGED solver
    /\ UNCHANGED <<pair, hist>>

WaveNext ==
    \/ WaveCall
    \/ WaveStep
    \/ WaveReturn
    \/ WaveResume

InitWave == Init /\ solver = "wave"

SpecWave == InitWave /\ [][WaveNext]_vars

\* the heap at the start of a reaction-diffusion call
RDCallerHeap(a, cu, cv) ==
    LET h1 == IF a.current_u.some THEN Alloc(EmptyHeap, "caller_u", cu) ELSE EmptyHeap
    IN  IF a.current_v.some THEN Alloc(h1, "caller_v", cv) ELSE h1

\* solve_reaction_diffusion(**a) is called
RDCall ==
    /\ solver = "rd"
    /\ pc = "idle"
    /\ \E a \in RDInputs : \E cu \in RDCallerU(a) : \E cv \in RDCallerV(a) :
       \E d \in RDInitDraws(a) :
          LET h0 == RDCallerHeap(a, cu, cv)
          IN  \E m \in {RDEnter(a, h0, d)} : Enter(m, a, h0)
    /\ UNCHANGED <<solver, phase, first>>
    /\ UNCHANGED <<pair, hist>>

\* one iteration of the loop of solve_reaction_diffusion
RDStep ==
    /\ solver = "rd"
    /\ pc = "loop"
    /\ n < loc.nt
    /\ \E f \in NormalFields(args.width, args.height) :
          \E m \in {RDIter(args, Current, f.zu, f.zv)} : Install(m) /\ rng' = m.rng
    /\ UNCHANGED <<solver, phase, args, result, caller0, first>>
    /\ UNCHANGED <<pair, hist>>

\* the loop is over: the result is built and returned
RDReturn ==
    /\ solver = "rd"
    /\ pc = "loop"
    /\ n >= loc.nt
    /\ pc' = "done"
    /\ result' = RDResult(args, Current)
    /\ UNCHANGED <<solver, phase, args, heap, loc, n, frames, frames_v, energy,
                   t_vals, err, cb_log, rng, catalogue, caller0, first>>
    /\ UNCHANGED <<pair, hist>>

\* the resumption protocol: current_u and current_v are the last U and V
\* frames of the response, the other parameters unchanged but for the horizon
RDResume ==
    /\ solver = "rd"
    /\ pc = "done"
    /\ phase = "first"
    /\ Len(result.U) >= 1
    /\ \E T \in {I(k) : k \in 0..MaxSteps} :
          LET a == [args EXCEPT !.T = T, !.current_u = Some("caller_u"),
                                !.current_v = Some("caller_v")]
              h0 == RDCallerHeap(a, Last(result.U), Last(result.V))
              d == [zu |-> <<>>, zv |-> <<>>, cells |-> {}]
          IN  \E m \in {RDEnter(a, h0, d)} : Enter(m, a, h0)
    /\ phase' = "resumed"
    /\ first' = [args |-> args, caller |-> caller0]
    /\ UNCHANGED solver
    /\ UNCHANGED <<pair, hist>>

RDNext ==
    \/ RDCall
    \/ RDStep
    \/ RDReturn
    \/ RDResume

InitRD == Init /\ solver = "rd"

SpecRD == InitRD /\ [][RDNext]_vars

Next ==
    \/ HeatCall
    \/ HeatStep
    \/ HeatReturn
    \/ HeatResume
    \/ WaveCall
    \/ WaveStep
    \/ WaveReturn
    \/ WaveResume
    \/ RDCall
    \/ RDStep
    \/ RDReturn
    \/ RDResume

Spec == Init /\ [][Next]_vars

----------------------------------------------------------------------------
(* Two solver calls of one process                                         *)

\* the variables of the single call of a session
session == <<pc, phase, args, heap, loc, n, frames, frames_v, energy, t_vals,
             err, result, cb_log, rng, catalogue, caller0, first>>

\* np.random: the process-wide generator is a stream of values; its state is
\* the position in the stream, and a draw of k values takes the next k.
\* Stand-in for the standard-normal stream: 0.5, -0.5, 0.5, ...
Stream(g) == IF g % 2 = 0 THEN Fx(1, 2) ELSE Fx(-1, 2)

\* np.random.standard_normal(size=k), np.random.normal(0, 1, k)
StreamDraws(g, k) == [i \in 1..k |-> Stream(g + i - 1)]

\* np.random.normal(0, 1, (nx, ny))
StreamField(g, nx, ny) ==
    [i \in 1..nx |-> [j \in 1..ny |-> Stream(g + (i - 1) * ny + (j - 1))]]

\* the states the generator may be in when the first call is made
Seeds == {0, 1}

\* the calls a thread of the process may make: [solver, args, caller]
PairInputs ==
    {[solver |-> "heat", args |-> a, caller |-> EmptyHeap] : a \in
        [alpha : {One}, dt : {I(1)}, dx : {I(2)}, t_steps : {1, 2},
         domain : {I(8)}, init : {"random"}, init_state : {None},
         bc : {"dirichlet"}, sigma : {Zero, One}, snapshot_interval : {1},
         return_as_list : {TRUE}, progress_callback : {FALSE}]}
    \cup
    {[solver |-> "wave", args |-> a, caller |-> EmptyHeap] : a \in
        [c : {One}, damping : {Zero}, sigma : {Zero, One}, T : {I(1), I(2)},
         dt : {I(1)}, dx : {I(1)}, domain_len : {I(4)}, init_type : {"pulse"},
         current_u : {None}, current_u_prev : {None}]}
    \cup
    {[solver |-> "rd", args |-> a,
      caller |-> RDCallerHeap(a, <<<<I(1), Half>>, <<Half, I(1)>>>>,
                              <<<<Zero, Half>>, <<Half, Zero>>>>)] : a \in
        [Du : {Fx(1, 8)}, Dv : {Fx(1, 16)}, F : {Fx(1, 16)}, k : {Fx(1, 16)},
         sigma : {Zero, One}, T : {I(1), I(2)}, dt : {One}, dx : {One},
         init_type : {"spots"}, width : {2}, height : {2},
         current_u : {Some("caller_u")}, current_v : {Some("caller_v")}]}

\* everything the solver s does before its loop
PairEnter(s, a, h) ==
    IF s = "heat" THEN HeatEnter(a, h)
    ELSE IF s = "wave" THEN WaveEnter(a, h)
    ELSE RDEnter(a, h, [zu |-> <<>>, zv |-> <<>>, cells |-> {}])

\* one iteration of the loop of solver s, the generator being at position g
PairIter(s, a, m, g) ==
    IF s = "heat" THEN HeatIter(a, m, StreamDraws(g, Len(m.heap[m.loc.u]) - 2))
    ELSE IF s = "wave" THEN WaveIter(a, m, StreamDraws(g, m.loc.nx))
    ELSE RDIter(a, m, StreamField(g, a.width, a.height),
                StreamField(g + a.width * a.height, a.width, a.height))

\* the loop of solver s is over
PairOver(s, a, m) ==
    IF s = "heat" THEN HeatLoopOver(m.n, a.t_steps) ELSE m.n >= m.loc.nt

\* the value solver s returns
PairResult(s, a, m) ==
    IF s = "heat" THEN HeatResult(a, m)
    ELSE IF s = "wave" THEN WaveResult(a, m)
    ELSE RDResult(a, m)

\* the loop of a call that runs alone, from machine state m and generator
\* position g
RECURSIVE PairAloneLoop(_, _, _, _)
PairAloneLoop(s, a, m, g) ==
    IF m.pc # "loop" \/ PairOver(s, a, m) THEN m
    ELSE LET m1 == PairIter(s, a, m, g)
         IN  PairAloneLoop(s, a, m1, g + (m1.rng - m.rng))

\* what the call [solver, args, caller] returns when no other call runs
\* while it does and the generator is at position g when it is made
PairAlone(s, a, h, g) ==
    LET m0 == PairEnter(s, a, h)
    IN  PairResult(s, a, PairAloneLoop(s, a, m0, g + m0.rng))

\* a thread that has made no call
NoCall ==
    [solver |-> "none", args |-> NoArgs, caller |-> EmptyHeap,
     m |-> Machine("idle", EmptyHeap, NoLoc, 0, <<>>, <<>>, <<>>, <<>>, NoErr,
                   <<>>, "none", 0),
     st |-> "idle", result |-> NoResult]

\* thread p makes a call: validation and initial condition
PairCall ==
    /\ solver = "pair"
    /\ \E p \in 1..2 :
          /\ pair.call[p].st = "idle"
          /\ \E i \in PairInputs : \E m \in {PairEnter(i.solver, i.args, i.caller)} :
                pair' = [call |-> [pair.call EXCEPT ![p] =
                                     [solver |-> i.solver, args |-> i.args,
                                      caller |-> i.caller, m |-> m,
                                      st |-> IF m.pc = "loop" THEN "running"
                                             ELSE "failed",
                                      result |-> NoResult]],
                         gen |-> pair.gen + m.rng]
    /\ UNCHANGED <<solver, session, hist>>

\* the call of thread p executes one iteration of its loop, drawing from the
\* generator where it stands
PairStep ==
    /\ solver = "pair"
    /\ \E p \in 1..2 : \E c \in {pair.call[p]} :
          /\ c.st = "running"
          /\ ~PairOver(c.solver, c.args, c.m)
          /\ \E m \in {PairIter(c.solver, c.args, c.m, pair.gen)} :
                pair' = [call |-> [pair.call EXCEPT ![p] =
                                     [c EXCEPT !.m = m,
                                               !.st = IF m.pc = "loop"
                                                      THEN "running" ELSE "failed"]],
                         gen |-> pair.gen + (m.rng - c.m.rng)]
    /\ UNCHANGED <<solver, session, hist>>

\* the call of thread p returns
PairReturn ==
    /\ solver = "pair"
    /\ \E p \in 1..2 : \E c \in {pair.call[p]} :
          /\ c.st = "running"
          /\ PairOver(c.solver, c.args, c.m)
          /\ pair' = [pair EXCEPT !.call[p] =
                        [c EXCEPT !.st = "done",
                                  !.result = PairResult(c.solver, c.args, c.m)]]
    /\ UNCHANGED <<solver, session, hist>>

PairNext ==
    \/ PairCall
    \/ PairStep
    \/ PairReturn

InitPair ==
    /\ solver = "pair"
    /\ Idle
    /\ \E g \in Seeds : pair = [call |-> <<NoCall, NoCall>>, gen |-> g]
    /\ hist = NoHist

SpecPair == InitPair /\ [][PairNext]_vars

----------------------------------------------------------------------------
(* Properties                                                              *)

\* a heat call is in progress or over whose dx, dt and t_steps are positive
\* and whose ratio alpha*dt/dx^2 exceeds 0.5
C1_UnstableCall ==
    /\ solver = "heat"
    /\ pc # "idle"
    /\ FGt(args.dx, Zero)
    /\ FGt(args.dt, Zero)
    /\ args.t_steps > 0
    /\ FGt(FDiv(FMul(args.alpha, args.dt), FMul(args.dx, args.dx)), Half)

\* C1: a solve_heat call with dx > 0, dt > 0, t_steps > 0 and
\* alpha*dt/dx^2 > 0.5 fails with the stability error that carries the ratio
\* and the threshold 0.5, before the grid or any field is built: the heap
\* holds nothing but the caller's arrays, no step is executed, no frame or
\* energy value is recorded, no progress callback is invoked, nothing is
\* returned.
C1_HeatStabilityReject ==
    C1_UnstableCall =>
        /\ pc = "failed"
        /\ err = HeatStabilityError(FDiv(FMul(args.alpha, args.dt),
                                         FMul(args.dx, args.dx)))
        /\ err.threshold = Fx(1, 2)
        /\ DOMAIN heap \subseteq CallerIds
        /\ loc.x = "none" /\ loc.u = "none" /\ loc.u_next = "none"
        /\ n = 0
        /\ frames = <<>>
        /\ energy = <<>>
        /\ cb_log = <<>>
        /\ result = NoResult

\* C1's case: an unstable call with a progress callback and an init_state
\* has been made and has failed
C1_Witness ==
    /\ C1_UnstableCall
    /\ pc = "failed"
    /\ args.progress_callback
    /\ args.init_state.some
    /\ args.bc = "dirichlet"
    /\ args.init \in HeatKinds
    /\ err.ratio = Fx(3, 4)

\* a wave call is in progress or over whose grid spacing is positive and
\* whose CFL ratio c*dt/dx exceeds 1.0
C2_UnstableCall ==
    /\ solver = "wave"
    /\ pc # "idle"
    /\ FGt(args.dx, Zero)
    /\ FGt(FDiv(FMul(args.c, args.dt), args.dx), One)

\* C2: a solve_wave_equation call with c*dt/dx > 1.0 (dx > 0) fails with the
\* stability error that carries the ratio and the threshold 1.0, before any
\* field buffer (u_curr, u_prev, u_next) is allocated, before any resume
\* state is read and before any step: no frame and no energy value is
\* produced and nothing is returned.
C2_WaveCflReject ==
    C2_UnstableCall =>
        /\ pc = "failed"
        /\ err.type = "ValueError"
        /\ err.msg = "Unstable: CFL condition violated"
        /\ err.ratio = FDiv(FMul(args.c, args.dt), args.dx)
        /\ err.threshold = I(1)
        /\ DOMAIN heap \cap {"u_curr", "u_prev", "u_next"} = {}
        /\ loc.u_curr = "none" /\ loc.u_prev = "none" /\ loc.u_next = "none"
        /\ catalogue = "none"
        /\ n = 0
        /\ frames = <<>>
        /\ energy = <<>>
        /\ result = NoResult

\* C2's case: an unstable call that supplies both resume arrays has been
\* made and has failed, the grid built and no field buffer allocated
C2_Witness ==
    /\ C2_UnstableCall
    /\ pc = "failed"
    /\ args.current_u.some
    /\ args.current_u_prev.some
    /\ args.T = I(MaxSteps)
    /\ DOMAIN heap = {"caller_u", "caller_v", "x"}

\* C3: heat resumption is one continuous process.  With sigma = 0 and
\* snapshot_interval = 1, after a first call of N >= 1 steps, a second call
\* of M >= 1 steps with init_state = the last frame of the first response
\* and the same alpha, dt, dx, domain does not fail, and its frame j is
\* frame N+j of a single run of N+M steps, for every j recorded so far; when
\* it returns it returns M+1 frames.
C3_HeatResumeContinuous ==
    ( /\ solver = "heat"
      /\ phase = "resumed"
      /\ first.args.sigma = Zero
      /\ first.args.snapshot_interval = 1
      /\ first.args.t_steps >= 1
      /\ args.t_steps >= 1 ) =>
        LET N == first.args.t_steps
            M == args.t_steps
            single == HeatRun([first.args EXCEPT !.t_steps = N + M], first.caller)
        IN  /\ pc \in {"loop", "done"}
            /\ Len(single.frames) = N + M + 1
            /\ \A j \in 0..(Len(frames) - 1) : frames[j + 1] = single.frames[N + j + 1]
            /\ pc = "done" => result.frames = frames /\ Len(frames) = M + 1

\* C3's case: a resumed noiseless call of MaxSteps steps after a first call
\* of MaxSteps steps has returned, and the field moved during it
C3_Witness ==
    /\ solver = "heat"
    /\ phase = "resumed"
    /\ pc = "done"
    /\ first.args.sigma = Zero
    /\ first.args.snapshot_interval = 1
    /\ first.args.t_steps = MaxSteps
    /\ args.t_steps = MaxSteps
    /\ Len(result.frames) = MaxSteps + 1
    /\ result.frames[1] # result.frames[MaxSteps + 1]

\* C4: wave resumption is one continuous process.  With sigma = 0, after a
\* first call of N >= 1 steps, a second call of M >= 0 steps with current_u =
\* the last frame and current_u_prev = the second-to-last frame of the first
\* response and the same c, damping, dt, dx, domain_len does not fail, and
\* its frame j is frame N+j of a single run of N+M steps, for every j
\* recorded so far; when it returns it returns M+1 frames.
C4_WaveResumeContinuous ==
    ( /\ solver = "wave"
      /\ phase = "resumed"
      /\ first.args.sigma = Zero
      /\ FTrunc(FDiv(first.args.T, first.args.dt)) >= 1 ) =>
        LET N == FTrunc(FDiv(first.args.T, first.args.dt))
            M == FTrunc(FDiv(args.T, args.dt))
            single == WaveRun([first.args EXCEPT !.T = FAdd(first.args.T, args.T)],
                              first.caller)
        IN  /\ pc \in {"loop", "done"}
            /\ M >= 0
            /\ Len(single.frames) = N + M + 1
            /\ \A j \in 0..(Len(frames) - 1) : frames[j + 1] = single.frames[N + j + 1]
            /\ pc = "done" => result.frames = frames /\ Len(frames) = M + 1

\* C4's case: a resumed noiseless call of MaxSteps steps after a first call
\* of MaxSteps steps has returned, and the field moved during it
C4_Witness ==
    /\ solver = "wave"
    /\ phase = "resumed"
    /\ pc = "done"
    /\ first.args.sigma = Zero
    /\ first.args.T = I(MaxSteps)
    /\ args.T = I(MaxSteps)
    /\ args.dt = One
    /\ Len(result.frames) = MaxSteps + 1
    /\ result.frames[1] # result.frames[MaxSteps + 1]

\* C5 (as stated): for each solver and every successful call, the last frame
\* returned is the field after the last executed step: heat u after step
\* t_steps for any snapshot_interval, wave u_curr after step int(T/dt),
\* reaction-diffusion U and V after step int(T/dt).
C5_LastFrameIsFinalState ==
    pc = "done" =>
        /\ solver = "heat" => Last(result.frames) = heap[loc.u]
        /\ solver = "wave" => Last(result.frames) = heap[loc.u_curr]
        /\ (solver = "rd" /\ n >= 1) =>
              /\ Last(result.U) = heap[loc.accumulated_U]
              /\ Last(result.V) = heap[loc.accumulated_V]

\* C5's failing case: a noiseless heat call of 3 steps with
\* snapshot_interval = 2 has returned; its last frame is the field after
\* step 2, and the field after step 3 is not in the response
C5_Witness ==
    /\ solver = "heat"
    /\ pc = "done"
    /\ phase = "first"
    /\ args.t_steps = 3
    /\ args.snapshot_interval = 2
    /\ args.sigma = Zero
    /\ n = 3
    /\ Len(result.frames) = 2
    /\ Last(result.frames) # heap[loc.u]
    /\ Last(result.frames) = heap[loc.u_next]

\* a reaction-diffusion call is in progress or over that supplies current_u
\* and current_v, both of shape (width, height)
C6_MatchingResume ==
    /\ solver = "rd"
    /\ pc # "idle"
    /\ args.current_u.some
    /\ args.current_v.some
    /\ Shape(caller0["caller_u"]) = <<args.width, args.height>>
    /\ Shape(caller0["caller_v"]) = <<args.width, args.height>>

\* C6: when current_u and current_v are both supplied with shape exactly
\* (width, height), the init_type catalogue is not consulted (no branch of it
\* is taken, nothing is drawn from the generator), stepping starts from the
\* supplied state, and with sigma = 0 the first frame recorded and returned
\* (U[0], V[0]) is exactly one forward-Euler Gray-Scott step applied to the
\* supplied (U, V).
C6_RDResumeFirstFrame ==
    C6_MatchingResume =>
        LET U0 == caller0["caller_u"]
            V0 == caller0["caller_v"]
            euler == GrayScottStep(args, U0, V0, U0, V0)
        IN  /\ catalogue = "resume"
            /\ (phase = "first" /\ n = 0) => rng = 0
            /\ (pc = "loop" /\ n = 0) =>
                  /\ heap[loc.accumulated_U] = U0
                  /\ heap[loc.accumulated_V] = V0
            /\ (args.sigma = Zero /\ Len(frames) >= 1) =>
                  /\ frames[1] = euler.U
                  /\ frames_v[1] = euler.V
            /\ (args.sigma = Zero /\ pc = "done" /\ n >= 1) =>
                  /\ result.U[1] = euler.U
                  /\ result.V[1] = euler.V

\* C6's case: a noiseless call that supplies a matching resume state and
\* names the spots catalogue entry has returned at least two frames, the
\* first of them different from the supplied state
C6_Witness ==
    /\ C6_MatchingResume
    /\ phase = "first"
    /\ pc = "done"
    /\ args.sigma = Zero
    /\ args.init_type = "spots"
    /\ Len(result.U) >= 2
    /\ result.U[1] # caller0["caller_u"]
    /\ result.V[1] # caller0["caller_v"]

\* a reaction-diffusion call is in progress or over that supplies current_u
\* and current_v, the shape of either different from (width, height), and
\* names an entry of the catalogue
C7_MismatchedResume ==
    /\ solver = "rd"
    /\ pc # "idle"
    /\ args.current_u.some
    /\ args.current_v.some
    /\ \/ Shape(caller0["caller_u"]) # <<args.width, args.height>>
       \/ Shape(caller0["caller_v"]) # <<args.width, args.height>>
    /\ args.init_type \in RDKinds

\* C7 (as stated): when current_u and current_v are both supplied but the
\* shape of either differs from (width, height), the supplied data is
\* discarded and the run starts from the initial condition selected by
\* init_type, exactly as if no resume state had been supplied: the catalogue
\* branch of init_type is taken and the state before the first step is one
\* that the call without resume state can start from; no error is raised.
C7_RDMismatchFallsBack ==
    C7_MismatchedResume =>
        LET fresh == [args EXCEPT !.current_u = None, !.current_v = None]
        IN  /\ catalogue = args.init_type
            /\ (args.dt # Zero /\ n = 0) =>
                  /\ pc = "loop"
                  /\ \E d \in RDInitDraws(fresh) :
                        /\ heap[loc.accumulated_U] = RDCatalogue(fresh, d).U
                        /\ heap[loc.accumulated_V] = RDCatalogue(fresh, d).V

\* C7's failing case: a call with a mismatched resume state that names the
\* spots entry is about to step from U = 1, V = 0, no catalogue branch taken
C7_Witness ==
    /\ C7_MismatchedResume
    /\ args.init_type = "spots"
    /\ pc = "loop"
    /\ n = 0
    /\ catalogue = "none"
    /\ heap[loc.accumulated_U] = Full(args.width, args.height, One)
    /\ heap[loc.accumulated_V] = Full(args.width, args.height, Zero)

\* a heat call is in progress or over that passes the checks of dx, dt,
\* t_steps and the stability ratio, and supplies an init_state whose length
\* differs from the grid size nx = floor(domain/dx) + 1
C8_MismatchedInitState ==
    /\ solver = "heat"
    /\ pc # "idle"
    /\ FGt(args.dx, Zero)
    /\ FGt(args.dt, Zero)
    /\ args.t_steps > 0
    /\ ~FGt(FDiv(FMul(args.alpha, args.dt), FMul(args.dx, args.dx)), Half)
    /\ args.init_state.some
    /\ Len(caller0["caller_u"]) # FFloor(FDiv(args.domain, args.dx)) + 1

C9_MismatchedResume ==
    /\ solver = "wave"
    /\ pc # "idle"
    /\ args.dx # Zero
    /\ args.dt # Zero
    /\ ~FGt(FDiv(FMul(args.c, args.dt), args.dx), One)
    /\ args.current_u.some
    /\ args.current_u_prev.some
    /\ \/ Len(caller0["caller_u"]) # FTrunc(FDiv(args.domain_len, args.dx)) + 1
       \/ Len(caller0["caller_v"]) # FTrunc(FDiv(args.domain_len, args.dx)) + 1

\* C9 (as stated): when current_u and current_u_prev are both supplied and
\* the length of either differs from nx, the call fails with a configuration
\* error before any step is executed and returns no frames.
C9_WaveMismatchFails ==
    C9_MismatchedResume =>
        /\ pc = "failed"
        /\ err.type = "ValueError"
        /\ n = 0
        /\ frames = <<>>
        /\ result = NoResult

\* C9's failing case: a call with a current_u of 3 values on a grid of 5 has
\* stepped from the zero-padded copy and returned frames
C9_Witness ==
    /\ C9_MismatchedResume
    /\ pc = "done"
    /\ n >= 1
    /\ err = NoErr
    /\ Len(caller0["caller_u"]) = 3
    /\ loc.nx = 5
    /\ result.frames[1] = <<I(1), I(2), I(1), Zero, Zero>>
    /\ Len(result.frames) = n + 1

\* C10: the resume arrays a caller supplies (heat init_state; wave current_u
\* and current_u_prev; reaction-diffusion current_u and current_v) are never
\* written to: at every point of the call, and so after it returns or fails,
\* every element of the caller's arrays is what it was when the call was
\* made, the end points that the heat solver zeroes in its own copy included;
\* none of the solver's array names refers to a caller's array.
C10_CallerArraysUnchanged ==
    /\ DOMAIN caller0 \subseteq DOMAIN heap
    /\ \A id \in DOMAIN caller0 : heap[id] = caller0[id]
    /\ \A name \in DOMAIN loc \cap {"x", "u", "u_next", "u_curr", "u_prev", "U", "V",
                                    "accumulated_U", "accumulated_V"} :
          loc[name] \notin CallerIds

\* C10's case: a heat call with an init_state whose end points are not zero
\* has stepped and returned; its own copy has zero end points
C10_Witness ==
    /\ solver = "heat"
    /\ pc = "done"
    /\ args.init_state.some
    /\ n >= 2
    /\ caller0["caller_u"][1] # Zero
    /\ heap["caller_u"][1] # Zero
    /\ result.frames[1][1] = Zero
    /\ heap[loc.u][1] = Zero

\* a wave call that does not resume: current_u and current_u_prev are not
\* both supplied; the call stands before its first step
C11_NotResumed ==
    /\ solver = "wave"
    /\ pc = "loop"
    /\ n = 0
    /\ ~(args.current_u.some /\ args.current_u_prev.some)

\* C11 (as stated): whenever a wave run does not resume from a supplied state
\* (unless both current_u and current_u_prev are given), the previous-level
\* field equals the current-level field at every grid point before the first
\* step (zero initial velocity), in all three such combinations of the two
\* arguments.
C11_ZeroInitialVelocity ==
    C11_NotResumed => heap[loc.u_prev] = heap[loc.u_curr]

\* C11's failing case: current_u is supplied without current_u_prev; the
\* pulse is the current level and the previous level is still all zeros
C11_Witness ==
    /\ C11_NotResumed
    /\ args.current_u.some
    /\ ~args.current_u_prev.some
    /\ args.init_type = "pulse"
    /\ heap[loc.u_curr] = WavePulse(heap[loc.x], args.domain_len)
    /\ heap[loc.u_prev] = Zeros(loc.nx)
    /\ heap[loc.u_prev] # heap[loc.u_curr]

\* C12: in every successful solve_heat call every recorded frame, the
\* initial frame included, and also when the initial field comes from a
\* caller's init_state whose end values are not zero, has value exactly 0 at
\* the first and the last grid point; the field itself has zero end points
\* after every step, with or without noise.
C12_HeatFramesZeroEnds ==
    (solver = "heat" /\ pc \in {"loop", "done"}) =>
        /\ \A j \in 1..Len(frames) :
              frames[j][1] = Zero /\ Last(frames[j]) = Zero
        /\ heap[loc.u][1] = Zero
        /\ Last(heap[loc.u]) = Zero
        /\ pc = "done" =>
              \A j \in 1..Len(result.frames) :
                  result.frames[j][1] = Zero /\ Last(result.frames[j]) = Zero

\* C12's case: a noisy call from an init_state with non-zero end values has
\* returned its frames, the initial one and those of two steps
C12_Witness ==
    /\ solver = "heat"
    /\ pc = "done"
    /\ FGt(args.sigma, Zero)
    /\ args.init_state.some
    /\ caller0["caller_u"][1] # Zero
    /\ Last(caller0["caller_u"]) # Zero
    /\ Len(result.frames) >= 3
    /\ \E i \in 2..Len(result.frames[3]) - 1 : result.frames[3][i] # Zero
    /\ result.frames[1][1] = Zero
    /\ Last(result.frames[3]) = Zero

\* C13 (as stated): in every successful solve_wave_equation call every
\* returned frame, frame 0 included, has value exactly 0 at both end points,
\* for every initial-condition path (pulse, string, or a resumed current_u
\* whose end values are arbitrary).
C13_WaveFramesZeroEnds ==
    (solver = "wave" /\ pc = "done") =>
        \A j \in 1..Len(result.frames) :
            result.frames[j] # <<>> =>
                result.frames[j][1] = Zero /\ Last(result.frames[j]) = Zero

\* C13's failing case: a call resumed from a current_u with non-zero end
\* values has returned; frame 0 is the supplied field as it was, the frames
\* of the steps have zero end points
C13_Witness ==
    /\ solver = "wave"
    /\ pc = "done"
    /\ args.current_u.some
    /\ args.current_u_prev.some
    /\ Len(caller0["caller_u"]) = loc.nx
    /\ Len(result.frames) >= 2
    /\ result.frames[1] = caller0["caller_u"]
    /\ result.frames[1][1] # Zero
    /\ Last(result.frames[1]) # Zero
    /\ result.frames[2][1] = Zero
    /\ Last(result.frames[2]) = Zero

\* the recording stride of a heat call: snapshot_interval when it is at
\* least 1, and 1 otherwise
C14_Stride == IF args.snapshot_interval >= 1 THEN args.snapshot_interval ELSE 1

\* C14: with k = snapshot_interval when snapshot_interval >= 1 and k = 1
\* otherwise, a successful solve_heat call returns exactly
\* 1 + floor(t_steps / k) frames; frame 0 is the initial field and frame j
\* (j >= 1) is the field after step j*k (at the moment step j*k is done the
\* last frame is the field, and without noise frame j is the state after
\* j*k steps of the run that records every step); the energy list has one
\* entry per frame, the diagnostic of that frame; every frame has length
\* nx = floor(domain/dx) + 1; so the frame count never exceeds
\* ceil(t_steps / k) + 1.
C14_HeatFrameRecording ==
    (solver = "heat" /\ pc \in {"loop", "done"}) =>
        /\ loc.snapshot_interval = C14_Stride
        /\ Len(frames) = 1 + (n \div C14_Stride)
        /\ Len(energy) = Len(frames)
        /\ \A j \in 1..Len(frames) :
              /\ Len(frames[j]) = FFloor(FDiv(args.domain, args.dx)) + 1
              /\ energy[j] = HeatEnergy(frames[j], args.dx)
        /\ n % C14_Stride = 0 => Last(frames) = heap[loc.u]
        /\ args.sigma = Zero =>
              \E ref \in {HeatRun([args EXCEPT !.snapshot_interval = 1], caller0)} :
                  \A j \in 1..Len(frames) :
                      frames[j] = ref.frames[(j - 1) * C14_Stride + 1]
        /\ pc = "done" =>
              /\ n = args.t_steps
              /\ result.frames = frames
              /\ result.energy = energy
              /\ Len(result.frames) = 1 + (args.t_steps \div C14_Stride)
              /\ Len(result.frames)
                    <= ((args.t_steps + C14_Stride - 1) \div C14_Stride) + 1

\* C14's case: a call of 3 steps with snapshot_interval = 2 has returned two
\* frames, the initial field and the field after step 2, which is not the
\* field after step 3
C14_Witness ==
    /\ solver = "heat"
    /\ pc = "done"
    /\ args.snapshot_interval = 2
    /\ args.t_steps = 3
    /\ Len(result.frames) = 2
    /\ Len(result.energy) = 2
    /\ result.frames[2] # heap[loc.u]
    /\ result.frames[2] # result.frames[1]

\* C15 (as stated): in every successful solve of any of the three solvers
\* (heat, wave, reaction-diffusion) the initial field, the state before any
\* time step has been applied, is recorded and returned as the first frame.
C15_InitialFieldIsFirstFrame ==
    (pc = "done" /\ err = NoErr) =>
        /\ solver = "heat" =>
              \E m0 \in {HeatEnter(args, caller0)} :
                  /\ Len(result.frames) >= 1
                  /\ result.frames[1] = m0.heap[m0.loc.u]
        /\ solver = "wave" =>
              \E m0 \in {WaveEnter(args, caller0)} :
                  /\ Len(result.frames) >= 1
                  /\ result.frames[1] = m0.heap[m0.loc.u_curr]
        /\ solver = "rd" =>
              /\ Len(result.U) >= 1
              /\ Len(result.V) >= 1
              /\ result.U[1] = heap[loc.U]
              /\ result.V[1] = heap[loc.V]

\* C15's failing case: a noiseless reaction-diffusion call from the catalogue
\* has returned; its first frame is the state after the first step, labelled
\* t = 0, and the initial field, still held by U and V, is in no frame
C15_Witness ==
    /\ solver = "rd"
    /\ pc = "done"
    /\ err = NoErr
    /\ args.sigma = Zero
    /\ ~args.current_u.some
    /\ Len(result.U) >= 1
    /\ \E s \in {GrayScottStep(args, heap[loc.U], heap[loc.V], heap[loc.U], heap[loc.V])} :
          /\ result.U[1] = s.U
          /\ result.V[1] = s.V
    /\ result.t[1] = Zero
    /\ \A j \in 1..Len(result.U) : result.U[j] # heap[loc.U]

\* C16 (as stated): for every total step count nt = int(T/dt) >= 1 the
\* number of frames solve_reaction_diffusion returns (the length of U, of V
\* and of t) is at most 50, the fixed target count, regardless of nt.
C16_RDAtMostTargetFrames ==
    (solver = "rd" /\ pc \in {"loop", "done"} /\ loc.nt >= 1) =>
        /\ Len(frames) <= TargetFrames
        /\ Len(frames_v) <= TargetFrames
        /\ Len(t_vals) <= TargetFrames
        /\ pc = "done" =>
              /\ Len(result.U) <= TargetFrames
              /\ Len(result.V) <= TargetFrames
              /\ Len(result.t) <= TargetFrames

\* C16's failing case: a call of nt = 99 steps, whose stride is
\* max(1, 99 div 50) = 1, has returned 99 frames
C16_Witness ==
    /\ solver = "rd"
    /\ pc = "done"
    /\ err = NoErr
    /\ loc.nt = 2 * TargetFrames - 1
    /\ loc.steps_per_frame = 1
    /\ Len(result.U) = 2 * TargetFrames - 1
    /\ Len(result.V) = Len(result.U)
    /\ Len(result.t) = Len(result.U)

\* C17 (as stated): the output sequences of solve_wave_equation are
\* parallel: in every successful call the energy sequence has exactly one
\* entry per returned frame, len(energy) = len(frames) = len(t), and
\* energy[j] is the diagnostic of frames[j].
C17_WaveSequencesParallel ==
    (solver = "wave" /\ pc = "done") =>
        /\ Len(result.energy) = Len(result.frames)
        /\ Len(result.frames) = Len(result.t)

\* C17 (amended): in every successful solve_wave_equation call frames and t
\* have one entry per time level, the initial one included, and energy has
\* one entry per step: len(frames) = len(t) = steps + 1 and
\* len(energy) = steps = len(frames) - 1. energy[j] (counting from 0) is the
\* diagnostic computed in step j+1 with frames[j] as the current level, its
\* velocity taken between frames[j+1] and the level before frames[j]; the
\* last frame has no energy entry.
C17_WaveEnergyPerStep ==
    (solver = "wave" /\ pc \in {"loop", "done"}) =>
        /\ Len(frames) = n + 1
        /\ Len(energy) = n
        /\ \E m0 \in {WaveEnter(args, caller0)} :
              \A j \in 1..Len(energy) :
                  energy[j] = WaveEnergy(args, frames[j + 1], frames[j],
                                         IF j = 1 THEN m0.heap[m0.loc.u_prev]
                                                  ELSE frames[j - 1])
        /\ pc = "done" =>
              /\ n = Max(0, loc.nt)
              /\ result.frames = frames
              /\ result.energy = energy
              /\ Len(result.t) = Len(result.frames)
              /\ Len(result.energy) = Len(result.frames) - 1
              /\ result.t = Linspace(Zero, args.T, n + 1)

\* C17's case: a call of three steps has returned four frames, four times
\* and three energies
C17_Witness ==
    /\ solver = "wave"
    /\ pc = "done"
    /\ n = 3
    /\ Len(result.frames) = 4
    /\ Len(result.t) = 4
    /\ Len(result.energy) = 3
    /\ result.energy[1] # result.energy[3]

\* every cell of the 2-D field Z is a finite number
C18_AllFinite(Z) ==
    \A i \in 1..Len(Z) : \A j \in 1..Len(Z[i]) : IsFinite(Z[i][j])

\* C18 (as stated): after every step of solve_reaction_diffusion, if any
\* cell of U or of V is non-finite (NaN, +Inf or -Inf) the run is aborted at
\* that step with a divergence error and the whole call fails, returning none
\* of the frames recorded so far; so no returned U or V frame ever contains a
\* non-finite value.
C18_RDFinitenessCheck ==
    solver = "rd" =>
        /\ (pc \in {"loop", "done"} /\ n >= 1) =>
              /\ C18_AllFinite(heap[loc.accumulated_U])
              /\ C18_AllFinite(heap[loc.accumulated_V])
        /\ pc = "failed" => result = NoResult
        /\ pc = "done" =>
              /\ \A j \in 1..Len(result.U) : C18_AllFinite(result.U[j])
              /\ \A j \in 1..Len(result.V) : C18_AllFinite(result.V[j])

\* C18's failing case: a call has returned a U frame that holds an infinity
\* and no NaN
C18_Witness ==
    /\ solver = "rd"
    /\ pc = "done"
    /\ err = NoErr
    /\ \E j \in 1..Len(result.U) :
          /\ ~C18_AllFinite(result.U[j])
          /\ ~AnyNaN(result.U[j])

\* the message of the first check of solve_heat that the call's arguments
\* fail, in the order dx/dt, t_steps, stability, initial condition, bc; ""
\* when they pass every check
C19_FirstError ==
    IF FLe(args.dx, Zero) \/ FLe(args.dt, Zero)
    THEN "dx and dt must be positive"
    ELSE IF args.t_steps <= 0
    THEN "t_steps must be positive integer"
    ELSE IF FGt(FDiv(FMul(args.alpha, args.dt), FMul(args.dx, args.dx)), Half)
    THEN "Unstable parameters: CFL r"
    ELSE IF args.init_state.some
            /\ Len(caller0["caller_u"]) # FFloor(FDiv(args.domain, args.dx)) + 1
    THEN "init_state length does not match domain/dx"
    ELSE IF ~args.init_state.some /\ args.init \notin {"pulse", "sin", "random"}
    THEN "Unknown init kind"
    ELSE IF args.bc # "dirichlet"
    THEN "Only 'dirichlet' bc is supported for now"
    ELSE ""

\* a solve_heat call has been made with dx <= 0, dt <= 0, t_steps <= 0, an
\* init selector outside {pulse, sin, random} and no init_state, or a bc
\* other than dirichlet
C19_ConfigurationError ==
    /\ solver = "heat"
    /\ pc # "idle"
    /\ \/ FLe(args.dx, Zero)
       \/ FLe(args.dt, Zero)
       \/ args.t_steps <= 0
       \/ ~args.init_state.some /\ args.init \notin {"pulse", "sin", "random"}
       \/ args.bc # "dirichlet"

\* C19: a solve_heat call with dx <= 0, dt <= 0, t_steps <= 0, an init
\* selector outside {pulse, sin, random} when no init_state is supplied, or a
\* bc other than dirichlet fails with a ValueError before the first step: no
\* step is executed, no frame is recorded or returned and the progress
\* callback is never invoked. When several checks fail, the error reported is
\* the first in the order dx/dt, t_steps, stability, initial condition, bc.
C19_HeatConfigurationErrors ==
    /\ C19_ConfigurationError =>
          /\ pc = "failed"
          /\ err.type = "ValueError"
          /\ n = 0
          /\ frames = <<>>
          /\ energy = <<>>
          /\ cb_log = <<>>
          /\ result = NoResult
    /\ (solver = "heat" /\ pc = "failed") => err.msg = C19_FirstError

\* C19's case: a call with a progress callback whose dx, t_steps, init and bc
\* are all wrong has failed on dx
C19_Witness ==
    /\ C19_ConfigurationError
    /\ pc = "failed"
    /\ FLt(args.dx, Zero)
    /\ args.t_steps = 0
    /\ args.init = "bogus"
    /\ ~args.init_state.some
    /\ args.bc = "neumann"
    /\ args.progress_callback
    /\ err = ValueError("dx and dt must be positive")
    /\ cb_log = <<>>

\* a solve_wave_equation or solve_reaction_diffusion call has been made with
\* dt <= 0, dx <= 0, or without a resume state (both arrays) and with an
\* init_type outside the solver's catalogue
C20_ConfigurationError ==
    /\ pc # "idle"
    /\ \/ /\ solver = "wave"
          /\ \/ FLe(args.dt, Zero)
             \/ FLe(args.dx, Zero)
             \/ /\ ~(args.current_u.some /\ args.current_u_prev.some)
                /\ args.init_type \notin {"pulse", "string"}
       \/ /\ solver = "rd"
          /\ \/ FLe(args.dt, Zero)
             \/ FLe(args.dx, Zero)
             \/ /\ ~(args.current_u.some /\ args.current_v.some)
                /\ args.init_type \notin {"random_center", "random_everywhere", "spots"}

\* C20 (as stated): a solve_wave_equation or solve_reaction_diffusion call
\* with dt <= 0, dx <= 0, or (when no resume state is supplied) an init_type
\* outside the solver's catalogue (wave: pulse, string; reaction-diffusion:
\* random_center, random_everywhere, spots) fails with a configuration error
\* before any step is executed; it never returns a result.
C20_ConfigurationErrorsFail ==
    C20_ConfigurationError =>
        /\ pc = "failed"
        /\ err.type = "ValueError"
        /\ n = 0
        /\ result = NoResult

\* C20's failing case: a wave call with dt > 0, dx > 0, no resume state and
\* an init_type outside the catalogue has stepped from the all-zero field and
\* returned its frames
C20_Witness ==
    /\ C20_ConfigurationError
    /\ solver = "wave"
    /\ pc = "done"
    /\ err = NoErr
    /\ FGt(args.dt, Zero)
    /\ FGt(args.dx, Zero)
    /\ ~args.current_u.some
    /\ ~args.current_u_prev.some
    /\ args.init_type = "bogus"
    /\ n >= 2
    /\ Len(result.frames) = n + 1
    /\ \A j \in 1..Len(result.frames) : result.frames[j] = Zeros(loc.nx)

\* the number of steps a call asks for: t_steps for heat, int(T/dt) for wave
\* and reaction-diffusion (no step when that is negative)
C23_Requested ==
    IF solver = "heat" THEN args.t_steps
    ELSE Max(0, FTrunc(FDiv(args.T, args.dt)))

\* a call that has returned has executed every requested step and has a
\* result; a call that has failed has none; a call in its loop has none yet
\* and has not gone past the requested number
C23_Outcome ==
    /\ pc = "done" =>
          /\ n = C23_Requested
          /\ err = NoErr
          /\ result # NoResult
    /\ pc = "failed" =>
          /\ err # NoErr
          /\ result = NoResult
    /\ pc = "loop" =>
          /\ n <= C23_Requested
          /\ result = NoResult

\* the steps of a call are executed one by one, in order, each one step
\* closer to the requested number
C23_InOrder ==
    /\ (pc = "loop" /\ pc' = "loop") => n' = n + 1
    /\ (pc = "loop" /\ pc' = "failed") => n' = n + 1
    /\ (pc = "loop" /\ pc' = "done") => n' = n

\* C23: every solver call terminates in exactly one of two ways: it
\* executes the full requested number of steps in order 1..N (heat:
\* N = t_steps; wave and reaction-diffusion: N = int(T/dt)) and then returns
\* its result, or it fails with an error and returns nothing; no call returns
\* after fewer than N steps or returns partial output; a call in its loop has
\* executed at most N steps and each further step brings it one closer to N,
\* so that it has at most N steps to go before it returns or fails.
C23_CompletesOrFails ==
    /\ []C23_Outcome
    /\ [][C23_InOrder]_vars

\* C23's case: a reaction-diffusion call has failed in its second step, after
\* it had recorded a frame, and returns nothing
C23_Witness ==
    /\ solver = "rd"
    /\ pc = "failed"
    /\ n = 2
    /\ Len(frames) = 1
    /\ err.type = "ValueError"
    /\ result = NoResult

\* C24: in a noiseless solve_heat call (sigma = 0) with accepted parameters
\* and 0 <= alpha*dt/dx^2 <= 0.5, from any initial field, every recorded
\* energy value (the sum of u_i^2 times dx over the frame) is non-negative
\* and the recorded energy sequence is non-increasing from one recorded
\* frame to the next.
C24_HeatEnergyDecays ==
    (solver = "heat" /\ pc \in {"loop", "done"} /\ args.sigma = Zero) =>
        /\ FLe(Zero, HeatRatio(args))
        /\ FLe(HeatRatio(args), Half)
        /\ \A j \in 1..Len(energy) :
              /\ FLe(Zero, energy[j])
              /\ energy[j] = HeatEnergy(frames[j], args.dx)
        /\ \A j \in 1..(Len(energy) - 1) : FLe(energy[j + 1], energy[j])
        /\ pc = "done" => result.energy = energy

\* C24's case: a noiseless call at the stability limit r = 0.5, from a
\* caller's init_state, has returned four frames whose energies decrease
\* strictly
C24_Witness ==
    /\ solver = "heat"
    /\ pc = "done"
    /\ args.sigma = Zero
    /\ args.init_state.some
    /\ HeatRatio(args) = Half
    /\ Len(result.energy) = 4
    /\ \A j \in 1..3 : FLt(result.energy[j + 1], result.energy[j])
    /\ FGt(result.energy[4], Zero)

\* the value the step of lines 113-130 gives cell (i, j) of U and of V when
\* it is computed from the fields U and V alone, with noise terms zu and zv
C26_NewU(U, V, i, j, zu) ==
    FAdd(U[i][j],
         FMul(FAdd(FAdd(FSub(FMul(args.Du, Laplacian(U, args.dx)[i][j]),
                             FMul(U[i][j], FSq(V[i][j]))),
                        FMul(args.F, FSub(One, U[i][j]))),
                   zu),
              args.dt))
C26_NewV(U, V, i, j, zv) ==
    FAdd(V[i][j],
         FMul(FAdd(FSub(FAdd(FMul(args.Dv, Laplacian(V, args.dx)[i][j]),
                             FMul(U[i][j], FSq(V[i][j]))),
                        FMul(FAdd(args.F, args.k), V[i][j])),
                   zv),
              args.dt))

\* one step of a reaction-diffusion call: both new fields are functions of
\* the two fields before the step
C26_FromPreStep ==
    (solver = "rd" /\ pc = "loop" /\ n' = n + 1) =>
        \E U \in {heap[loc.accumulated_U]} : \E V \in {heap[loc.accumulated_V]} :
        \E f \in IF FGt(args.sigma, Zero)
                 THEN NormalFields(args.width, args.height)
                 ELSE {[zu |-> Full(args.width, args.height, Zero),
                        zv |-> Full(args.width, args.height, Zero)]} :
        \E amp \in {IF FGt(args.sigma, Zero)
                    THEN FMul(args.sigma, FSqrt(args.dt)) ELSE Zero} :
            \A i \in 1..args.width : \A j \in 1..args.height :
                /\ heap'[loc.accumulated_U][i][j]
                      = C26_NewU(U, V, i, j, FMul(f.zu[i][j], amp))
                /\ heap'[loc.accumulated_V][i][j]
                      = C26_NewV(U, V, i, j, FMul(f.zv[i][j], amp))

\* C26: within each step of solve_reaction_diffusion the Laplacians, the
\* shared reaction term U*V^2 and both increments du and dv are computed from
\* the pre-step values of U and V only, and U and V are advanced only
\* afterwards: the new V never depends on the already-updated U of the same
\* step, nor the new U on the updated V.
C26_RDStepAtomic == [][C26_FromPreStep]_vars

\* C26's case: a noiseless call has made two steps in which both fields
\* changed, V not being zero, so that the reaction term couples them
C26_Witness ==
    /\ solver = "rd"
    /\ pc = "done"
    /\ args.sigma = Zero
    /\ args.dx # Zero
    /\ n >= 2
    /\ Len(result.U) >= 2
    /\ result.U[2] # result.U[1]
    /\ result.V[2] # result.V[1]
    /\ \E i \in 1..args.width : \E j \in 1..args.height :
          /\ FGt(result.V[1][i][j], Zero)
          /\ FGt(result.U[1][i][j], Zero)

\* the two buffers of a heat call are different buffers
C27_TwoBuffers ==
    (solver = "heat" /\ pc \in {"loop", "done"}) =>
        /\ loc.u # loc.u_next
        /\ {loc.u, loc.u_next} \subseteq DOMAIN heap
        /\ {loc.u, loc.u_next} \cap CallerIds = {}

\* one step of a heat call: the buffer that was read is left as it was, the
\* other buffer holds the whole new level, end points included, the two have
\* exchanged roles, and the frames recorded before are what they were; a
\* frame recorded by the step is the new level
C27_StepDiscipline ==
    (solver = "heat" /\ pc = "loop" /\ n' = n + 1) =>
        /\ heap'[loc.u] = heap[loc.u]
        /\ loc'.u = loc.u_next
        /\ loc'.u_next = loc.u
        /\ Len(heap'[loc'.u]) = Len(heap[loc.u])
        /\ heap'[loc'.u][1] = Zero
        /\ Last(heap'[loc'.u]) = Zero
        /\ args.sigma = Zero =>
              heap'[loc'.u] = HeatNextLevel(args, heap[loc.u], Zeros(Len(heap[loc.u]) - 2))
        /\ Len(frames') >= Len(frames)
        /\ \A j \in 1..Len(frames) : frames'[j] = frames[j]
        /\ Len(frames') > Len(frames) => Last(frames') = heap'[loc'.u]

\* C27: at every step of solve_heat the buffer being written (u_next) is a
\* different buffer from the one being read (u); the two exchange roles only
\* after the whole interior and both boundary points of the new level have
\* been written; every recorded frame is an independent copy, so no later
\* step changes the contents of a frame already recorded.
C27_HeatBufferDiscipline ==
    /\ []C27_TwoBuffers
    /\ [][C27_StepDiscipline]_vars

\* C27's case: after three steps the buffer that held the initial field has
\* been overwritten twice, and the initial frame is still the initial field
C27_Witness ==
    /\ solver = "heat"
    /\ pc = "done"
    /\ phase = "first"
    /\ n = 3
    /\ args.snapshot_interval = 1
    /\ Len(frames) = 4
    /\ loc.u = "u_next"
    /\ loc.u_next \in {"u", "u_copy"}
    /\ heap[loc.u] = frames[4]
    /\ heap[loc.u_next] = frames[3]
    /\ frames[1] # frames[3]
    /\ frames[1] # frames[4]

\* C28: when a progress_callback is given and the solve_heat call passes
\* validation, the callback is invoked exactly t_steps times, with arguments
\* (n, t_steps) for n = 1, 2, ..., t_steps in strictly increasing order, and
\* the invocation for step n happens after step n's field update, boundary
\* reset and (when n is a multiple of the snapshot interval) the recording of
\* step n's frame and energy; without a callback, and in a call that fails
\* validation, nothing is invoked.
C28_HeatProgressCallback ==
    solver = "heat" =>
        /\ (pc \in {"loop", "done"} /\ args.progress_callback) =>
              /\ Len(cb_log) = n
              /\ \A i \in 1..Len(cb_log) :
                    /\ cb_log[i].n = i
                    /\ cb_log[i].total = args.t_steps
                    /\ cb_log[i].frames = 1 + (i \div loc.snapshot_interval)
                    /\ cb_log[i].energy = cb_log[i].frames
                    /\ cb_log[i].u[1] = Zero
                    /\ Last(cb_log[i].u) = Zero
                    /\ i % loc.snapshot_interval = 0 =>
                          cb_log[i].u = frames[cb_log[i].frames]
              /\ n >= 1 => cb_log[n].u = heap[loc.u]
              /\ pc = "done" => Len(cb_log) = args.t_steps
        /\ (pc \in {"loop", "done"} /\ ~args.progress_callback) => cb_log = <<>>
        /\ pc = "failed" => cb_log = <<>>

\* C28's case: a call of three steps with snapshot_interval = 2 has returned;
\* the callback was invoked three times and saw the frame of step 2 already
\* recorded
C28_Witness ==
    /\ solver = "heat"
    /\ pc = "done"
    /\ args.progress_callback
    /\ args.t_steps = 3
    /\ args.snapshot_interval = 2
    /\ Len(cb_log) = 3
    /\ cb_log[1].frames = 1
    /\ cb_log[2].frames = 2
    /\ cb_log[3].frames = 2
    /\ cb_log[2].u = frames[2]
    /\ cb_log[3].u # frames[2]

\* the fields of a noiseless reaction-diffusion call after k Euler steps from
\* the fields U and V
RECURSIVE C29_After(_, _, _)
C29_After(U, V, k) ==
    IF k = 0 THEN [U |-> U, V |-> V]
    ELSE LET p == C29_After(U, V, k - 1)
         IN  GrayScottStep(args, p.U, p.V, U, V)

C21_Quiet(c) ==
    /\ c.solver \in {"heat", "wave"}
    /\ c.st # "idle"
    /\ c.args.sigma = Zero

\* what the noiseless call c returns as a function of its parameters alone
C21_Expected(c) ==
    IF c.solver = "heat" THEN HeatResult(c.args, HeatRun(c.args, c.caller))
    ELSE WaveResult(c.args, WaveRun(c.args, c.caller))

\* a noiseless call has drawn nothing, and what it returns is the function of
\* its parameters, so that two such calls with the same parameters agree
C21_SameResult ==
    /\ \A p \in 1..2 : C21_Quiet(pair.call[p]) =>
          /\ pair.call[p].m.rng = 0
          /\ pair.call[p].st = "done" =>
                pair.call[p].result = C21_Expected(pair.call[p])
    /\ ( /\ C21_Quiet(pair.call[1])
         /\ pair.call[1].st = "done"
         /\ pair.call[2].st = "done"
         /\ pair.call[2].solver = pair.call[1].solver
         /\ pair.call[2].args = pair.call[1].args
         /\ pair.call[2].caller = pair.call[1].caller )
       => pair.call[2].result = pair.call[1].result

\* a step of a noiseless call leaves the generator where it stands
C21_DrawsNothing ==
    \A p \in 1..2 :
       (C21_Quiet(pair'.call[p]) /\ pair'.call[p] # pair.call[p])
          => pair'.gen = pair.gen

\* C21: for solve_heat and solve_wave_equation with sigma = 0, a call draws
\* nothing from the process-wide random generator, and two calls with
\* identical parameters return identical frame and energy sequences, whatever
\* the generator's state and whatever other calls ran in between.
C21_NoiselessDeterminism ==
    /\ []C21_SameResult
    /\ [][C21_DrawsNothing]_vars

\* C21's case: a noiseless heat call with the "random" initial condition has
\* returned while a noisy call of the other thread was drawing from the
\* generator
C21_Witness ==
    /\ C21_Quiet(pair.call[1])
    /\ pair.call[1].solver = "heat"
    /\ pair.call[1].args.t_steps = 2
    /\ pair.call[1].st = "done"
    /\ pair.call[2].st = "done"
    /\ pair.call[2].args.sigma = One
    /\ pair.gen >= 3
    /\ pair.call[1].result = C21_Expected(pair.call[1])

\* the results the call c can return when it runs alone
C22_Alone(c) ==
    {PairAlone(c.solver, c.args, c.caller, g) : g \in Seeds}

\* what a call returns when another call runs concurrently is something it
\* can return alone
C22_SameAsAlone ==
    \A p \in 1..2 : pair.call[p].st = "done" =>
       pair.call[p].result \in C22_Alone(pair.call[p])

\* a step of one call changes only what that call owns
C22_OwnState ==
    \A p \in 1..2 :
       pair'.call[p] # pair.call[p] =>
          /\ pair'.call[3 - p] = pair.call[3 - p]
          /\ pair'.gen = pair.gen

\* C22: two solver calls running concurrently (any mix of heat, wave,
\* reaction-diffusion, any sigma >= 0) share no mutable resource: under every
\* interleaving of their steps each call reads and writes only state it owns,
\* and the set of results one call can return is the same as when it runs
\* alone.
C22_Isolation ==
    /\ []C22_SameAsAlone
    /\ [][C22_OwnState]_vars

\* C22's case: two noisy heat calls have run interleaved, and the first has
\* returned frames it cannot return when it runs alone
C22_Witness ==
    /\ pair.call[1].st = "done"
    /\ pair.call[2].st = "done"
    /\ pair.call[1].solver = "heat"
    /\ pair.call[2].solver = "heat"
    /\ pair.call[1].args.sigma = One
    /\ pair.call[2].args.sigma = One
    /\ pair.call[1].result \notin C22_Alone(pair.call[1])

----------------------------------------------------------------------------
(* create_history: the table of stored simulations                         *)

\* if count >= 10
HistoryLimit == 10

\* the requests made in a run
MaxRequests == 12

\* the (user, simulation_type) pairs of the requests; the first is the pair
\* that fills its history, the others make one request each
HistoryUsers == {1, 2}
HistoryTypes == {"heat", "wave"}
HistoryMain == [user |-> 1, type |-> "heat"]

\* None where a row is expected
NoRow == [id |-> 0, user |-> 0, type |-> "none", ts |-> 0]

\* query.filter(user_id == ...).filter(simulation_type == ...)
HistoryRows(rows, user, type) ==
    {r \in rows : r.user = user /\ r.type = type}

\* .order_by(timestamp.asc()).first(): the oldest row, or None
HistoryOldest(S) ==
    IF S = {} THEN NoRow
    ELSE CHOOSE r \in S : \A q \in S : r.ts <= q.ts

\* a worker thread serving no request
NoReq == [pc |-> "idle", user |-> 0, type |-> "none", count |-> 0,
          oldest |-> NoRow]

\* a request of the pair (user, type) may be made
HistoryMayRequest(user, type) ==
    /\ hist.clock + Cardinality({p \in 1..2 : hist.req[p].pc # "idle"}) < MaxRequests
    /\ [user |-> user, type |-> type] # HistoryMain =>
          /\ HistoryRows(hist.rows, user, type) = {}
          /\ \A p \in 1..2 : hist.req[p].pc # "idle" =>
                (hist.req[p].user # user \/ hist.req[p].type # type)

\* count = query.count(); if count >= 10
HistoryCount ==
    /\ solver = "history"
    /\ \E p \in 1..2 : \E user \in HistoryUsers, type \in HistoryTypes :
          /\ hist.req[p].pc = "idle"
          /\ HistoryMayRequest(user, type)
          /\ \E c \in {Cardinality(HistoryRows(hist.rows, user, type))} :
                hist' = [hist EXCEPT !.req[p] =
                           [pc |-> IF c >= HistoryLimit THEN "select" ELSE "commit",
                            user |-> user, type |-> type, count |-> c,
                            oldest |-> NoRow]]
    /\ UNCHANGED <<solver, session, pair>>

\* oldest = query.order_by(timestamp.asc()).first(); if oldest: db.delete(oldest)
\* (the deletion is pending until the commit)
HistorySelect ==
    /\ solver = "history"
    /\ \E p \in 1..2 : \E r \in {hist.req[p]} :
          /\ r.pc = "select"
          /\ hist' = [hist EXCEPT !.req[p] =
                        [r EXCEPT !.pc = "commit",
                                  !.oldest = HistoryOldest(
                                      HistoryRows(hist.rows, r.user, r.type))]]
    /\ UNCHANGED <<solver, session, pair>>

\* db.add(new_history); db.commit(): the pending deletion and the new row,
\* stamped with the time of the insert, reach the table together
HistoryCommit ==
    /\ solver = "history"
    /\ \E p \in 1..2 : \E r \in {hist.req[p]} :
          /\ r.pc = "commit"
          /\ hist' = [rows |-> ((IF r.oldest = NoRow THEN hist.rows
                                 ELSE hist.rows \ {r.oldest})
                                \cup {[id |-> hist.clock + 1, user |-> r.user,
                                       type |-> r.type, ts |-> hist.clock + 1]}),
                      req |-> [hist.req EXCEPT ![p] = NoReq],
                      clock |-> hist.clock + 1]
    /\ UNCHANGED <<solver, session, pair>>

HistoryNext ==
    \/ HistoryCount
    \/ HistorySelect
    \/ HistoryCommit

InitHistory ==
    /\ solver = "history"
    /\ Idle
    /\ pair = NoPair
    /\ hist = [rows |-> {}, req |-> <<NoReq, NoReq>>, clock |-> 0]

SpecHistory == InitHistory /\ [][HistoryNext]_vars

\* no (user, simulation_type) pair has more than 10 rows
C30_AtMostLimit ==
    \A user \in HistoryUsers, type \in HistoryTypes :
       Cardinality(HistoryRows(hist.rows, user, type)) <= HistoryLimit

\* a commit removes at most one row, and the row it removes is the oldest row
\* of the pair of the request that commits
C30_RemovesOldest ==
    \A r \in hist.rows \ hist'.rows :
       /\ hist.rows \ hist'.rows = {r}
       /\ \E p \in 1..2 :
             /\ hist.req[p].pc = "commit"
             /\ hist'.req[p].pc = "idle"
             /\ r.user = hist.req[p].user
             /\ r.type = hist.req[p].type
             /\ r = HistoryOldest(HistoryRows(hist.rows, r.user, r.type))

\* C30: create_history enforces a limit of 10 stored entries per (user,
\* simulation_type): starting from an empty table, after any set of
\* create_history requests, including requests from the same user whose
\* count, delete-oldest and insert steps interleave, no pair has more than 10
\* rows; the row removed to make room is that pair's oldest, and rows of
\* other users or other simulation types are never removed.
C30_HistoryCap ==
    /\ []C30_AtMostLimit
    /\ [][C30_RemovesOldest]_vars

\* C30's case: both requests have returned and the pair has 11 rows
C30_Witness ==
    /\ \A p \in 1..2 : hist.req[p].pc = "idle"
    /\ Cardinality(HistoryRows(hist.rows, HistoryMain.user, HistoryMain.type))
          = HistoryLimit + 1

----------------------------------------------------------------------------
(* test_wave_damping: solve_wave_equation on the grid of the test          *)
(* The parameters are fractions, every level of the field is computed      *)
(* exactly from the two levels before it and rounded to 1/FineScale        *)

\* the unit of the field values
FineScale == 1024

\* the double num/den (den > 0)
Q(num, den) == [num |-> num, den |-> den]
QMul(a, b) == Q(a.num * b.num, a.den * b.den)
QDiv(a, b) == Q(a.num * b.den, a.den * b.num)

\* int() of a double that is not negative
QInt(a) == a.num \div a.den

\* np.exp(-(s**2) / 0.5) for s = 0, 0.1, 0.2, ..., in units of 1/1024; it is
\* below half a unit from s = 2.0 on
PulseTable ==
    <<1024, 1004, 945, 855, 744, 621, 498, 384, 285, 203,
      139, 91, 57, 35, 20, 11, 6, 3, 2, 1>>

\* x = np.linspace(0, domain_len, nx); np.exp(-((x - domain_len/2)**2) / 0.5)
\* at the point i of the grid, whose distance to the centre is d tenths
WaveFinePulse(a, nx) ==
    [i \in 1..nx |->
        LET s == RoundDiv(10 * a.domain_len.num * (2 * (i - 1) - (nx - 1)),
                          2 * a.domain_len.den * (nx - 1))
            d == IF s < 0 THEN -s ELSE s
        IN  IF d < Len(PulseTable)
            THEN RoundDiv(PulseTable[d + 1] * FineScale, 1024)
            ELSE 0]

\* np.sum of an array of integers
RECURSIVE IntSum(_)
IntSum(s) == IF s = <<>> THEN 0 ELSE Head(s) + IntSum(Tail(s))

\* np.linspace(0, stop, k)
WaveFineLinspace(stop, k) ==
    [i \in 1..k |->
        IF k = 1 THEN 0
        ELSE RoundDiv((i - 1) * stop.num * FineScale, stop.den * (k - 1))]

\* cfl = c * dt / dx
WaveFineCfl(a) == QDiv(QMul(a.c, a.dt), a.dx)

\* lines 23-76: everything solve_wave_equation does before its loop, for
\* the pulse without resume state
WaveFineEnter(a) ==
    LET nx == QInt(QDiv(a.domain_len, a.dx)) + 1
        nt == QInt(QDiv(a.T, a.dt))
        cfl == WaveFineCfl(a)
        l == [x |-> "x", u_curr |-> "u_curr", u_prev |-> "u_prev",
              u_next |-> "u_next", nx |-> nx, nt |-> nt]
        hx == Alloc(EmptyHeap, "x", WaveFineLinspace(a.domain_len, nx))
    IN  IF cfl.num > cfl.den
        THEN Raise(hx, l, [type |-> "ValueError",
                           msg |-> "Unstable: CFL condition violated",
                           ratio |-> cfl, threshold |-> Q(1, 1)], "none", 0)
        ELSE LET u0 == WaveFinePulse(a, nx)
                 h == Alloc(Alloc(Alloc(hx, "u_curr", u0), "u_prev", u0),
                            "u_next", [i \in 1..nx |-> 0])
             IN  Machine("loop", h, l, 0, <<u0>>, <<>>, <<>>, <<>>, NoErr, <<>>,
                         "pulse", 0)

\* k = damping * dt
WaveFineKUndamped(a) == Q(0, 1)
WaveFineK(a) == QMul(a.damping, a.dt)

\* lines 107-123 with sigma = 0:
\* u_next = (2*u_curr - u_prev*(1 - k/2) + r2*d2u) / (1 + k/2), ends set to 0
WaveFineNextLevel(a, uc, up) ==
    LET cfl == WaveFineCfl(a)
        r2 == QMul(cfl, cfl)
        k == WaveFineK(a)
    IN  [i \in 1..Len(uc) |->
            IF i = 1 \/ i = Len(uc) THEN 0
            ELSE LET d2u == uc[i + 1] - 2 * uc[i] + uc[i - 1]
                 IN  RoundDiv(2 * uc[i] * 2 * k.den * r2.den
                                 - up[i] * (2 * k.den - k.num) * r2.den
                                 + r2.num * d2u * 2 * k.den,
                              (2 * k.den + k.num) * r2.den)]

\* lines 129-134: total_en = kin_en + pot_en, as a multiple of
\* 1 / (8 * dt.num^2 * c.den^2 * dx.num^2 * dx.den * FineScale^2), the same
\* unit at every step
WaveFineEnergy(a, un, uc, up) ==
    LET nx == Len(uc)
        vel2 == [i \in 1..(nx - 2) |-> (un[i + 1] - up[i + 1]) * (un[i + 1] - up[i + 1])]
        strain2 == [i \in 1..(nx - 1) |-> (uc[i + 1] - uc[i]) * (uc[i + 1] - uc[i])]
    IN  a.dx.num *
           ( IntSum(vel2) * a.dt.den * a.dt.den * a.c.den * a.c.den
                * a.dx.num * a.dx.num
             + IntSum(strain2) * 4 * a.dt.num * a.dt.num * a.c.num * a.c.num
                * a.dx.den * a.dx.den )

\* lines 106-142: one iteration of the loop
WaveFineIter(a, m) ==
    LET uc == m.heap[m.loc.u_curr]
        up == m.heap[m.loc.u_prev]
        un == WaveFineNextLevel(a, uc, up)
        h1 == Alloc(m.heap, "u_next", un)
        h2 == Alloc(h1, m.loc.u_prev, uc)
        h3 == Alloc(h2, m.loc.u_curr, un)
    IN  [m EXCEPT !.heap = h3, !.n = m.n + 1,
                  !.energy = Append(@, WaveFineEnergy(a, un, uc, up)),
                  !.frames = Append(@, un)]

\* lines 144-149
WaveFineResult(a, m) ==
    [kind |-> "dict", x |-> m.heap[m.loc.x],
     t |-> WaveFineLinspace(a.T, Len(m.frames)),
     frames |-> m.frames, energy |-> m.energy]

\* the call of test_wave_damping: c = 1, damping = 2.0, sigma = 0, T = 5.0,
\* dt = 0.05, dx = 0.1, the default domain_len = 10.0, the pulse
WaveFineInputs ==
    {[c |-> Q(1, 1), damping |-> Q(2, 1), sigma |-> Q(0, 1), T |-> Q(5, 1),
      dt |-> Q(1, 20), dx |-> Q(1, 10), domain_len |-> Q(10, 1),
      init_type |-> "pulse", current_u |-> None, current_u_prev |-> None]}

\* the test calls solve_wave_equation
WaveFineCall ==
    /\ solver = "wave_fine"
    /\ pc = "idle"
    /\ \E a \in WaveFineInputs : \E m \in {WaveFineEnter(a)} : Enter(m, a, EmptyHeap)
    /\ UNCHANGED <<solver, phase, first, pair, hist>>

\* one iteration of the loop
WaveFineStep ==
    /\ solver = "wave_fine"
    /\ pc = "loop"
    /\ n < loc.nt
    /\ \E m \in {WaveFineIter(args, Current)} : Install(m)
    /\ UNCHANGED <<solver, phase, args, result, rng, caller0, first, pair, hist>>

\* the loop is over: the result is built and returned
WaveFineReturn ==
    /\ solver = "wave_fine"
    /\ pc = "loop"
    /\ n >= loc.nt
    /\ pc' = "done"
    /\ result' = WaveFineResult(args, Current)
    /\ UNCHANGED <<solver, phase, args, heap, loc, n, frames, frames_v, energy,
                   t_vals, err, cb_log, rng, catalogue, caller0, first, pair, hist>>

WaveFineNext ==
    \/ WaveFineCall
    \/ WaveFineStep
    \/ WaveFineReturn

InitWaveFine ==
    /\ solver = "wave_fine"
    /\ Idle
    /\ pair = NoPair
    /\ hist = NoHist

SpecWaveFine == InitWaveFine /\ [][WaveFineNext]_vars

\* C25: solve_wave_equation with sigma = 0 and damping large relative to the
\* horizon (c = 1, damping = 2.0, T = 5.0, dt = 0.05, dx = 0.1, pulse initial
\* condition): the last energy value is smaller than the first and smaller
\* than 10% of the first.
C25_WaveDampingDecay ==
    pc = "done" =>
       /\ result.energy[Len(result.energy)] < result.energy[1]
       /\ 10 * result.energy[Len(result.energy)] < result.energy[1]

\* C25's case: the call of the test has returned its 100 energy values and
\* 101 frames of 101 points, the first energy being positive
C25_Witness ==
    /\ pc = "done"
    /\ args.damping = Q(2, 1)
    /\ Len(result.energy) = 100
    /\ Len(result.frames) = 101
    /\ Len(result.frames[1]) = 101
    /\ result.energy[1] > 0

====
